---- MODULE Spec2Model ----
(***************************************************************************)
(* Analytics service (report and dashboard endpoints, metric aggregation)  *)
(* and contact service (contact lookup, creation, update) of whatsappbot.  *)
(*                                                                         *)
(* The specifications share the variables:                                 *)
(*   Spec          the services as they answer HTTP requests: request      *)
(*                 validation, cache lookup, computation, response;        *)
(*   SpecUnit      the individual functions applied directly to bounded    *)
(*                 arguments (validators, partitioning, time grouping);    *)
(*   SpecCache     the report and dashboard cache reads and writes;        *)
(*   SpecMetrics   MessageMetric and the delivery-rate computations on     *)
(*                 exact rationals;                                        *)
(*   SpecStats     MetricsCalculator on binary floating point;             *)
(*   SpecContacts  ContactManager.create_contact and update_contact run    *)
(*                 by several workers over one table;                      *)
(*   SpecLookup    get_contact, update_contact and the contact routes run  *)
(*                 by several workers over one contact;                    *)
(*   SpecGroups    Group.add_member, GroupManager.update_group and         *)
(*                 bulk_add_contacts on one group;                         *)
(*   SpecImport    ImportManager.import_contacts coroutines beside nine    *)
(*                 running imports;                                        *)
(*   SpecUpload    the import routes and import_contacts on a new          *)
(*                 ImportManager, every coroutine eventually resumed;      *)
(*   SpecReportKeys  the cache key of report requests.                     *)
(*                                                                         *)
(* Time is counted in whole seconds.  Exceptions are values: an operator   *)
(* that models a Python callable returns a record whose field exc names    *)
(* the exception class raised ("none" when the call returns).  The model   *)
(* describes what the function bodies do when Python evaluates them; the   *)
(* modules are taken as loaded.                                            *)
(***************************************************************************)
EXTENDS Integers, Sequences, FiniteSets, TLC

VARIABLES
    now,        \* the wall clock, datetime.utcnow(), in seconds
    cache,      \* the Redis store: key -> [val, exp]
    db,         \* the contacts table: id -> contact row (SpecContacts: the set of rows)
    pc,         \* per request slot: position of the handler
    req,        \* per request slot: the request being served
    resp,       \* per request slot: the response given
    steps,      \* per request slot: the handler steps this request has run
                \* (SpecContacts: the contact the worker's session holds)
    call,       \* SpecUnit: the last direct function call and its result
    written     \* SpecUnit: key -> the document cache_report last stored under it

vars == <<now, cache, db, pc, req, resp, steps, call, written>>

----------------------------------------------------------------------------
(* Units of time and program constants                                     *)

Hour == 3600
Day == 24 * Hour
Week == 7 * Day
MaxRangeDays == 90
CACHE_TTL == 300
DASHBOARD_TTL == 300
CONTACT_CACHE_TTL == 900
MAX_RETRIES == 3

(* Bounds of the model *)
NumProcs == 1
MaxTicks == 1

Procs == 1..NumProcs
NowStart == MaxRangeDays * Day + 2
Nil == [nil |-> TRUE]

Ok(v) == [exc |-> "none", msg |-> "", value |-> v]
Raise(cls, m) == [exc |-> cls, msg |-> m, value |-> Nil]

----------------------------------------------------------------------------
(* routes/reports.py: ReportRequest                                         *)

valid_periods == {"hourly", "daily", "weekly"}

\* ReportRequest.validate_time_period
validate_time_period(v) ==
    IF v \notin valid_periods
    THEN {"Time period must be one of ['hourly', 'daily', 'weekly']"}
    ELSE {}

\* ReportRequest.validate_time_range, applied to start_time and to end_time
validate_time_range(v, utcnow) ==
    IF v > utcnow THEN {"Time cannot be in the future"} ELSE {}

\* validate_time_span without its 90-day test
validate_time_span_no_limit(v, has_start, start_time) ==
    IF has_start
    THEN LET time_diff == v - start_time IN
         IF time_diff <= 0
         THEN {"End time must be after start time"}
         ELSE {}
    ELSE {}

\* ReportRequest.validate_time_span, applied to end_time; has_start says
\* whether start_time passed its own validators ("start_time" in values)
validate_time_span(v, has_start, start_time) ==
    IF has_start
    THEN LET time_diff == v - start_time IN
         IF time_diff > MaxRangeDays * Day
         THEN {"Time range cannot exceed 90 days"}
         ELSE IF time_diff <= 0
              THEN {"End time must be after start time"}
              ELSE {}
    ELSE {}

\* The validation pydantic runs when it builds a ReportRequest: the fields in
\* declaration order, the validators of a field in definition order, the
\* later validators of a field skipped once one has failed.  The result is
\* the set of error messages; the request is accepted when it is empty.
ReportRequestErrors(r, utcnow) ==
    LET start_errs == validate_time_range(r.start_time, utcnow)
        end_future == validate_time_range(r.end_time, utcnow)
        end_errs   == IF end_future # {} THEN end_future
                      ELSE validate_time_span(r.end_time, start_errs = {},
                                              r.start_time)
    IN  start_errs \cup end_errs \cup validate_time_period(r.time_period)

TimeRangeMessages ==
    {"Time cannot be in the future", "Time range cannot exceed 90 days",
     "End time must be after start time"}

----------------------------------------------------------------------------
(* The Redis store                                                          *)

\* redis GET: the value under key while the entry has not expired
redis_get(c, key, t) ==
    IF key \in DOMAIN c /\ c[key].exp > t THEN c[key].val ELSE Nil

\* A write that keeps a live entry (SET with NX) instead of replacing it
redis_set_if_absent(c, key, ttl, value, t) ==
    IF key \in DOMAIN c /\ c[key].exp > t
    THEN c
    ELSE (key :> [val |-> value, exp |-> t + ttl]) @@ c

\* redis SETEX key ttl value: one command that replaces the whole entry
redis_setex(c, key, ttl, value, t) ==
    (key :> [val |-> value, exp |-> t + ttl]) @@ c

----------------------------------------------------------------------------
(* Strings built with f-strings are sequences of tokens, so that two        *)
(* different field tuples can give the same string.                         *)

\* datetime.isoformat(): the text of a datetime
isoformat(t) == <<ToString(t)>>

\* routes/reports.py get_cache_key:
\*   f"report:{organization_id}:{report_type}:{start.isoformat()}:{end.isoformat()}"
get_cache_key(r) ==
    <<"report", ":">> \o r.organization_id \o <<":">> \o r.report_type
        \o <<":">> \o isoformat(r.start_time) \o <<":">> \o isoformat(r.end_time)

\* routes/dashboard.py get_cache_key: f"dashboard_metrics:{org_id}:{time_period}"
dashboard_cache_key(org_id, time_period) ==
    <<"dashboard_metrics", ":">> \o org_id \o <<":", time_period>>

\* ContactManager._get_cache_key: f"contact_service:{key_type}:{identifier}"
contact_cache_key(key_type, identifier) ==
    <<"contact_service", ":", key_type, ":", identifier>>

----------------------------------------------------------------------------
(* services/calculator.py                                                   *)

\* dict.get(key, {}) on a configuration dict
dict_get(d, key) == IF key \in DOMAIN d THEN d[key] ELSE <<>>

\* validate_thresholds(thresholds, strict_mode); threshold values are in
\* hundredths (0.99 is 99, 100 is 10000)
validate_thresholds(thresholds, strict_mode) ==
    LET required_keys == {"delivery", "engagement", "performance"} IN
    IF strict_mode /\ ~(required_keys \subseteq DOMAIN thresholds)
    THEN FALSE
    ELSE \A key \in DOMAIN thresholds :
            ~(thresholds[key] < 0 \/ thresholds[key] > 100 * 100)

\* MetricsCalculator.__init__(config, historical_data); columns are the
\* columns of the historical DataFrame
MetricsCalculator_init(config, columns) ==
    IF ~validate_thresholds(dict_get(config, "thresholds"), TRUE)
    THEN Raise("ValueError", "Invalid threshold configuration")
    ELSE IF ~({"timestamp", "metric_type", "value"} \subseteq columns)
         THEN Raise("ValueError", "Historical data missing required columns")
         ELSE Ok("calculator")

\* MetricsCalculator.calculate_delivery_statistics, its guard on the input:
\* metrics is a sequence of records with a field is_valid
calculate_delivery_statistics_guard(metrics) ==
    LET valid_metrics == SelectSeq(metrics, LAMBDA m : m.is_valid) IN
    IF valid_metrics = <<>>
    THEN Raise("ValueError", "No valid metrics provided for analysis")
    ELSE Ok(valid_metrics)

----------------------------------------------------------------------------
(* services/aggregator.py: MetricsAggregator.__init__                       *)

\* The constructor builds its calculator from performance_thresholds, then
\* calls _validate_config, which reads self._performance_thresholds before
\* the constructor has assigned it.
MetricsAggregator_init(aggregation_config, performance_thresholds) ==
    LET calc == MetricsCalculator_init(performance_thresholds,
                                       {"timestamp", "metric_type", "value"})
    IN  IF calc.exc # "none" THEN calc
        ELSE Raise("AttributeError",
                   "'MetricsAggregator' object has no attribute '_performance_thresholds'")

----------------------------------------------------------------------------
(* routes/reports.py: the body of get_delivery_report's try block           *)

\* SLA_THRESHOLDS, in hundredths
SLA_THRESHOLDS ==
    [delivery_rate |-> 99, response_time |-> 200, concurrent_users |-> 100000]

\* The names routes/reports.py binds: its imports and its module globals
reports_module_names ==
    {"APIRouter", "HTTPException", "Depends", "Query", "BaseModel", "validator",
     "Dict", "List", "Optional", "Union", "datetime", "timedelta", "redis",
     "MessageDeliveryReport", "EngagementReport", "SystemPerformanceReport",
     "MetricsCalculator", "MetricsAggregator", "router", "redis_client",
     "CACHE_TTL", "SLA_THRESHOLDS", "ReportRequest", "get_cache_key",
     "get_cached_report", "cache_report"}

\* The fields MessageDeliveryReport.__init__ requires (those without default)
MessageDeliveryReport_required ==
    {"report_id", "organization_id", "start_time", "end_time", "report_type",
     "metrics"}

\* Lines 125-178: what the try block yields for request r.  Every statement is
\* taken in order; the first that raises ends the block.
generate_delivery_report(r) ==
    IF "pd" \notin reports_module_names
    THEN Raise("NameError", "name 'pd' is not defined")
    ELSE LET calculator == MetricsCalculator_init(
                               [thresholds |-> SLA_THRESHOLDS], {})
         IN
         IF calculator.exc # "none" THEN calculator
         ELSE LET aggregator == MetricsAggregator_init(
                      [time_periods |-> <<r.time_period>>,
                       optimization_settings |-> [memory_efficient |-> TRUE],
                       sla_thresholds |-> SLA_THRESHOLDS],
                      SLA_THRESHOLDS)
              IN
              IF aggregator.exc # "none" THEN aggregator
              ELSE IF "uuid" \notin reports_module_names
                   THEN Raise("NameError", "name 'uuid' is not defined")
                   ELSE LET given == {"report_id", "organization_id",
                                      "start_time", "end_time", "report_type"}
                        IN  IF ~(MessageDeliveryReport_required \subseteq given)
                            THEN Raise("TypeError",
                                       "missing required argument: 'metrics'")
                            ELSE Ok([organization_id |-> r.organization_id])

----------------------------------------------------------------------------
(* Serialisation of a report document for the cache.                        *)
(* A document is [statistics, partition_boundaries]: statistics a float     *)
(* ([nan, v]: v in hundredths, nan for float('nan')), partition_boundaries  *)
(* the list of datetime objects to_dict() passes on from time_partitions.   *)

\* repr() of a float: a literal, or the bare word nan
float_repr(f) == IF f.nan THEN [word |-> "nan", lit |-> 0]
                 ELSE [word |-> "", lit |-> f.v]

\* repr() of a datetime object: the text datetime.datetime(...)
datetime_repr(t) == [word |-> "datetime.datetime", lit |-> t]

\* cache_report: str(report_data), the source text of a dict display
py_str(doc) ==
    [partition_boundaries |->
        [i \in DOMAIN doc.partition_boundaries |->
            datetime_repr(doc.partition_boundaries[i])],
     statistics |-> float_repr(doc.statistics)]

\* Evaluating one term of the text in the namespace of routes/reports.py:
\* datetime there is the class, so datetime.datetime is no attribute of it;
\* nan is no name of the module.
eval_term(term) ==
    IF term.word = "" THEN Ok(term.lit)
    ELSE IF term.word = "datetime.datetime"
         THEN IF "datetime" \in reports_module_names
              THEN Raise("AttributeError",
                         "type object 'datetime.datetime' has no attribute 'datetime'")
              ELSE Raise("NameError", "name 'datetime' is not defined")
         ELSE IF term.word \in reports_module_names
              THEN Ok(term.lit)
              ELSE Raise("NameError", "name is not defined")

\* eval(cached_data): the dict display is evaluated entry by entry, the entries
\* of to_dict() (time_partitions among them) before "statistics"
py_eval(text) ==
    LET bs == text.partition_boundaries
        bad == {i \in DOMAIN bs : eval_term(bs[i]).exc # "none"}
        st == eval_term(text.statistics)
    IN  IF bad # {}
        THEN eval_term(bs[CHOOSE i \in bad : \A j \in bad : i <= j])
        ELSE IF st.exc # "none" THEN st
             ELSE Ok([partition_boundaries |->
                          [i \in DOMAIN bs |-> bs[i].lit],
                      statistics |-> [nan |-> FALSE, v |-> st.value]])

\* get_cached_report(cache_key): None (Nil) when the read fails, when nothing
\* is stored, and when eval raises
get_cached_report(c, cache_key, t, redis_fails) ==
    IF redis_fails THEN Nil
    ELSE LET cached_data == redis_get(c, cache_key, t) IN
         IF cached_data = Nil THEN Nil
         ELSE LET parsed == py_eval(cached_data) IN
              IF parsed.exc # "none" THEN Nil ELSE parsed.value

\* cache_report(cache_key, report_data): a failing write is ignored
cache_report(c, cache_key, report_data, t, redis_fails) ==
    IF redis_fails THEN c
    ELSE redis_setex(c, cache_key, CACHE_TTL, py_str(report_data), t)

\* The dashboard stores json.dumps(response.to_dict()) and reads it back with
\* json.loads: floats, strings, lists and dicts, which JSON carries as they are
json_dumps(doc) == [json |-> doc]
json_loads(text) == text.json

----------------------------------------------------------------------------
(* models/contact.py: Contact.to_dict and Contact.from_dict                 *)

Contact_to_dict(row) ==
    [id |-> row.id, phone_number |-> row.phone_number,
     first_name |-> row.first_name, organization_id |-> row.organization_id,
     version |-> row.version, is_deleted |-> row.is_deleted]

\* from_dict builds a new Contact through __init__, which draws a new id and
\* sets version 1 and is_deleted False whatever the dict holds
Contact_from_dict(data) ==
    [id |-> "new-uuid", phone_number |-> data.phone_number,
     first_name |-> data.first_name, organization_id |-> data.organization_id,
     version |-> 1, is_deleted |-> FALSE]

----------------------------------------------------------------------------
(* models/reports.py: BaseReport                                            *)

\* The expression datetime.timedelta(...) of lines 62, 122, 124 and 126.
\* Line 17 reads `from datetime import datetime`, so datetime is the class
\* datetime.datetime, which has no attribute timedelta: evaluating the
\* expression raises AttributeError whatever the arguments are.
datetime_timedelta(seconds) ==
    Raise("AttributeError",
          "type object 'datetime.datetime' has no attribute 'timedelta'")

\* BaseReport._validate_time_range
BaseReport_validate_time_range(start_time, end_time, utcnow) ==
    IF end_time <= start_time
    THEN Raise("ValueError", "End time must be after start time")
    ELSE IF end_time > utcnow
         THEN Raise("ValueError", "End time cannot be in the future")
         ELSE LET max_range == datetime_timedelta(MaxRangeDays * Day) IN
              IF max_range.exc # "none" THEN max_range
              ELSE IF (end_time - start_time) > max_range.value
                   THEN Raise("ValueError", "Time range cannot exceed 90 days")
                   ELSE Ok(Nil)

\* Lines 90-97 of _setup_time_partitions: duration_hours <= 24, <= 168
partition_strategy(start_time, end_time) ==
    LET duration_seconds == end_time - start_time IN
    IF duration_seconds <= 24 * Hour THEN "hourly"
    ELSE IF duration_seconds <= 168 * Hour THEN "daily"
         ELSE "weekly"

partition_hours(partition_size) ==
    IF partition_size = "hourly" THEN 1
    ELSE IF partition_size = "daily" THEN 24 ELSE 168

\* BaseReport._calculate_partition_boundaries: the while loop of lines 119-126
RECURSIVE boundaries_loop(_, _, _, _)
boundaries_loop(current, end_time, partition_size, boundaries) ==
    IF ~(current <= end_time) THEN Ok(boundaries)
    ELSE LET step == datetime_timedelta(partition_hours(partition_size) * Hour)
         IN  IF step.exc # "none" THEN step
             ELSE boundaries_loop(current + step.value, end_time, partition_size,
                                  Append(boundaries, current))

BaseReport_calculate_partition_boundaries(start_time, end_time, partition_size) ==
    boundaries_loop(start_time, end_time, partition_size, <<>>)

\* BaseReport._setup_time_partitions: the dict passed to time_partitions.update
\* is built entry by entry; when an entry raises, update is not reached and
\* time_partitions stays empty
BaseReport_setup_time_partitions(start_time, end_time) ==
    LET partition_size == partition_strategy(start_time, end_time)
        partition_count ==
            (end_time - start_time) \div (partition_hours(partition_size) * Hour)
        bounds == BaseReport_calculate_partition_boundaries(
                      start_time, end_time, partition_size)
    IN  IF bounds.exc # "none" THEN bounds
        ELSE Ok([strategy |-> partition_size,
                 partition_count |-> partition_count,
                 partition_boundaries |-> bounds.value])

\* BaseReport.__post_init__: validation, then metadata, then the partitions
BaseReport_post_init(start_time, end_time, utcnow) ==
    LET valid == BaseReport_validate_time_range(start_time, end_time, utcnow) IN
    IF valid.exc # "none" THEN valid
    ELSE BaseReport_setup_time_partitions(start_time, end_time)

----------------------------------------------------------------------------
(* services/aggregator.py: group_by_time_period                             *)

Min(S) == CHOOSE x \in S : \A y \in S : x <= y
Max(S) == CHOOSE x \in S : \A y \in S : x >= y

\* pandas frequency of a period: 'H' and 'D' bins start on whole hours and
\* days of the clock; 'W' bins are the calendar weeks Monday to Sunday (pandas
\* labels them by their Sunday; start below is the first instant of the bin),
\* and second 0 (1 January 1970) is a Thursday
bin_step(time_period) ==
    IF time_period = "hourly" THEN Hour
    ELSE IF time_period = "daily" THEN Day ELSE Week

bin_origin(time_period) == IF time_period = "weekly" THEN 4 * Day ELSE 0

bin_floor(t, time_period) ==
    LET step == bin_step(time_period)
        origin == bin_origin(time_period)
    IN  ((t - origin) \div step) * step + origin

\* data.set_index('timestamp').groupby(pd.Grouper(freq=...)): one bin for every
\* step from the bin of the earliest timestamp to the bin of the latest, the
\* bins without rows included.  timestamps are the 'timestamp' column; a frame
\* built from no metrics has no such column.
group_by_time_period(timestamps, time_period) ==
    IF time_period \notin {"hourly", "daily", "weekly"}
    THEN Raise("ValueError", "Invalid time period")
    ELSE IF timestamps = <<>>
         THEN Raise("KeyError", "timestamp")
         ELSE LET ts == {timestamps[i] : i \in DOMAIN timestamps}
                  first == bin_floor(Min(ts), time_period)
                  last == bin_floor(Max(ts), time_period)
                  step == bin_step(time_period)
                  n == (last - first) \div step + 1
              IN  Ok([i \in 1..n |->
                        LET b == first + (i - 1) * step IN
                        [start |-> b,
                         rows |-> Cardinality({j \in DOMAIN timestamps :
                                     bin_floor(timestamps[j], time_period) = b})]])

----------------------------------------------------------------------------
(* The requests the services receive                                        *)

Orgs == {<<"acme">>, <<"acme", ":", "x">>}
ReportTypes == {<<"delivery">>, <<"x", ":", "delivery">>}
ReportPeriods == {"hourly", "monthly"}
DashboardPeriods == {"day", "daily"}
ContactIds == {"c1", "c2"}

\* <<start_time, end_time>> of the report requests: exactly 90 days, 90 days
\* and a second, an hour ending now, an empty range, a range ending just after
\* the first clock value, an inverted range, a range in the future
Ranges ==
    {<<2, NowStart>>, <<1, NowStart>>, <<NowStart - Hour, NowStart>>,
     <<NowStart, NowStart>>, <<NowStart - Hour, NowStart + 1>>,
     <<NowStart + 1, NowStart>>, <<NowStart + MaxTicks + 1, NowStart + MaxTicks + 2>>}

ReportRequests ==
    {[kind |-> "report", organization_id |-> o, report_type |-> ty,
      start_time |-> rg[1], end_time |-> rg[2], time_period |-> tp] :
        o \in Orgs, ty \in ReportTypes, rg \in Ranges, tp \in ReportPeriods}

DashboardRequests ==
    {[kind |-> "dashboard", organization_id |-> o, time_period |-> tp,
      refresh_cache |-> rc] :
        o \in Orgs, tp \in DashboardPeriods, rc \in BOOLEAN}

NoReq == [kind |-> "none"]
NoResp == [status |-> 0, detail |-> {}, body |-> Nil]
Response(status, detail, body) ==
    [status |-> status, detail |-> detail, body |-> body]

----------------------------------------------------------------------------
(* POST /reports/delivery                                                   *)

\* FastAPI builds the ReportRequest before it calls the handler: a request
\* whose validators raise is answered 422 and the handler never starts.
SubmitReport(p, r) ==
    /\ pc[p] = "idle"
    /\ LET errs == ReportRequestErrors(r, now) IN
       /\ req' = [req EXCEPT ![p] = r @@ [at |-> now]]
       /\ pc' = [pc EXCEPT ![p] = IF errs = {} THEN "lookup" ELSE "done"]
       /\ resp' = [resp EXCEPT ![p] =
                     IF errs = {} THEN NoResp ELSE Response(422, errs, Nil)]
    /\ steps' = [steps EXCEPT ![p] = <<>>]
    /\ UNCHANGED <<now, cache, db, call, written>>

\* get_delivery_report, lines 119-123: the cache lookup
ReportLookup(p) ==
    /\ pc[p] = "lookup" /\ req[p].kind = "report"
    /\ \E redis_fails \in BOOLEAN :
         LET cached_report ==
                 get_cached_report(cache, get_cache_key(req[p]), now, redis_fails)
         IN
         /\ pc' = [pc EXCEPT ![p] = IF cached_report # Nil THEN "done" ELSE "compute"]
         /\ resp' = [resp EXCEPT ![p] =
                       IF cached_report # Nil
                       THEN Response(200, {}, cached_report) ELSE NoResp]
         /\ steps' = [steps EXCEPT ![p] =
                        Append(@, IF redis_fails THEN "cache_get_failed"
                                  ELSE IF cached_report # Nil THEN "cache_hit"
                                       ELSE "cache_miss")]
    /\ UNCHANGED <<now, cache, db, req, call, written>>

\* get_delivery_report, lines 180-184: the response for an exception e raised
\* in the try block
delivery_error_response(e) ==
    Response(500, {<<"Error generating delivery report: ", e.msg>>}, Nil)

\* get_delivery_report, lines 125-184: the try block and its handler
ReportCompute(p) ==
    /\ pc[p] = "compute" /\ req[p].kind = "report"
    /\ LET out == generate_delivery_report(req[p]) IN
       IF out.exc = "none"
       THEN \E redis_fails \in BOOLEAN :
              /\ cache' = cache_report(cache, get_cache_key(req[p]), out.value,
                                       now, redis_fails)
              /\ resp' = [resp EXCEPT ![p] = Response(200, {}, out.value)]
              /\ steps' = [steps EXCEPT ![p] =
                             @ \o <<"compute", IF redis_fails THEN "cache_set_failed"
                                               ELSE "cache_set">>]
       ELSE /\ cache' = cache
            /\ resp' = [resp EXCEPT ![p] = delivery_error_response(out)]
            /\ steps' = [steps EXCEPT ![p] = Append(@, "compute_raised")]
    /\ pc' = [pc EXCEPT ![p] = "done"]
    /\ UNCHANGED <<now, db, req, call, written>>

----------------------------------------------------------------------------
(* GET /dashboard/metrics                                                   *)

\* Query(..., regex=r'^[a-zA-Z0-9-]{4,}$') on organization_id
matches_org_regex(org) == \A i \in DOMAIN org : org[i] # ":"

\* Query(..., regex=r'^(hour|day|week|month)$') on time_period
matches_period_regex(tp) == tp \in {"hour", "day", "week", "month"}

\* get_dashboard_metrics, lines 189-194: the response for an exception e raised
\* in the try block
dashboard_error_response(e) ==
    Response(500, {"Error processing dashboard metrics"}, Nil)

\* The cache write of get_dashboard_metrics, lines 174-185
dashboard_store(c, cache_key, body, t) ==
    redis_setex(c, cache_key, DASHBOARD_TTL, json_dumps(body), t)

SubmitDashboard(p, r) ==
    /\ pc[p] = "idle"
    /\ LET ok == matches_org_regex(r.organization_id)
                 /\ matches_period_regex(r.time_period)
       IN
       /\ req' = [req EXCEPT ![p] = r @@ [at |-> now]]
       /\ pc' = [pc EXCEPT ![p] = IF ok THEN "lookup" ELSE "done"]
       /\ resp' = [resp EXCEPT ![p] =
                     IF ok THEN NoResp
                     ELSE Response(422, {"string does not match regex"}, Nil)]
    /\ steps' = [steps EXCEPT ![p] = <<>>]
    /\ UNCHANGED <<now, cache, db, call, written>>

\* get_dashboard_metrics, lines 119-126: the cache lookup, inside the handler's
\* try block, so that a failing read ends in the except clause of line 189
DashboardLookup(p) ==
    /\ pc[p] = "lookup" /\ req[p].kind = "dashboard"
    /\ LET cache_key ==
               dashboard_cache_key(req[p].organization_id, req[p].time_period)
       IN
       IF req[p].refresh_cache
       THEN /\ pc' = [pc EXCEPT ![p] = "compute"]
            /\ UNCHANGED <<resp, steps>>
       ELSE \E redis_fails \in BOOLEAN :
              LET cached_data == redis_get(cache, cache_key, now) IN
              IF redis_fails
              THEN /\ pc' = [pc EXCEPT ![p] = "done"]
                   /\ resp' = [resp EXCEPT ![p] = dashboard_error_response(
                        Raise("ConnectionError", "Error connecting to redis"))]
                   /\ steps' = [steps EXCEPT ![p] = Append(@, "cache_get_failed")]
              ELSE IF cached_data # Nil
                   THEN /\ pc' = [pc EXCEPT ![p] = "done"]
                        /\ resp' = [resp EXCEPT ![p] =
                             Response(200, {},
                                 [json_loads(cached_data) EXCEPT !.cache_hit = TRUE])]
                        /\ steps' = [steps EXCEPT ![p] = Append(@, "cache_hit")]
                   ELSE /\ pc' = [pc EXCEPT ![p] = "compute"]
                        /\ resp' = resp
                        /\ steps' = [steps EXCEPT ![p] = Append(@, "cache_miss")]
    /\ UNCHANGED <<now, cache, db, req, call, written>>

\* get_dashboard_metrics, lines 128-194: the statistics are asked for
\* metrics=[] ("Fetch from database"), the response is cached and returned
DashboardCompute(p) ==
    /\ pc[p] = "compute" /\ req[p].kind = "dashboard"
    /\ LET delivery_metrics == calculate_delivery_statistics_guard(<<>>)
           cache_key ==
               dashboard_cache_key(req[p].organization_id, req[p].time_period)
       IN
       IF delivery_metrics.exc # "none"
       THEN /\ cache' = cache
            /\ resp' = [resp EXCEPT ![p] =
                 dashboard_error_response(delivery_metrics)]
            /\ steps' = [steps EXCEPT ![p] = Append(@, "compute_raised")]
       ELSE \E redis_fails \in BOOLEAN :
              LET body == [delivery_metrics |-> delivery_metrics.value,
                           cached_at |-> now, ttl |-> DASHBOARD_TTL,
                           cache_hit |-> FALSE]
              IN
              IF redis_fails
              THEN /\ cache' = cache
                   /\ resp' = [resp EXCEPT ![p] = dashboard_error_response(
                        Raise("ConnectionError", "Error connecting to redis"))]
                   /\ steps' = [steps EXCEPT ![p] =
                                  @ \o <<"compute", "cache_set_failed">>]
              ELSE /\ cache' = dashboard_store(cache, cache_key, body, now)
                   /\ resp' = [resp EXCEPT ![p] = Response(200, {}, body)]
                   /\ steps' = [steps EXCEPT ![p] = @ \o <<"compute", "cache_set">>]
    /\ pc' = [pc EXCEPT ![p] = "done"]
    /\ UNCHANGED <<now, db, req, call, written>>

----------------------------------------------------------------------------
(* GET /contacts/{contact_id}: ContactManager.get_contact under             *)
(* @retry(stop=stop_after_attempt(MAX_RETRIES)), called by the route         *)

SubmitContact(p, contact_id) ==
    /\ pc[p] = "idle"
    /\ req' = [req EXCEPT ![p] =
                 [kind |-> "contact", contact_id |-> contact_id, attempt |-> 1,
                  found |-> Nil, at |-> now]]
    /\ pc' = [pc EXCEPT ![p] = "lookup"]
    /\ resp' = [resp EXCEPT ![p] = NoResp]
    /\ steps' = [steps EXCEPT ![p] = <<>>]
    /\ UNCHANGED <<now, cache, db, call, written>>

\* An attempt of get_contact has raised: tenacity runs the function again
\* until MAX_RETRIES attempts have failed, then raises RetryError, which the
\* route's except clause turns into 500
AfterRaise(p, step) ==
    /\ steps' = [steps EXCEPT ![p] = Append(@, step)]
    /\ IF req[p].attempt < MAX_RETRIES
       THEN /\ req' = [req EXCEPT ![p].attempt = @ + 1, ![p].found = Nil]
            /\ pc' = [pc EXCEPT ![p] = "lookup"]
            /\ resp' = resp
       ELSE /\ req' = req
            /\ pc' = [pc EXCEPT ![p] = "done"]
            /\ resp' = [resp EXCEPT ![p] =
                          Response(500, {"Internal server error"}, Nil)]

\* get_contact, lines 181-189: the cache read, outside any try block
ContactCacheGet(p) ==
    /\ pc[p] = "lookup" /\ req[p].kind = "contact"
    /\ \E redis_fails \in BOOLEAN :
         LET cached_data ==
                 redis_get(cache, contact_cache_key("contact", req[p].contact_id), now)
         IN
         IF redis_fails THEN AfterRaise(p, "cache_get_failed")
         ELSE IF cached_data # Nil
              THEN /\ pc' = [pc EXCEPT ![p] = "done"]
                   /\ resp' = [resp EXCEPT ![p] =
                        Response(200, {},
                                 Contact_to_dict(Contact_from_dict(json_loads(cached_data))))]
                   /\ steps' = [steps EXCEPT ![p] = Append(@, "cache_hit")]
                   /\ req' = req
              ELSE /\ pc' = [pc EXCEPT ![p] = "query"]
                   /\ steps' = [steps EXCEPT ![p] = Append(@, "cache_miss")]
                   /\ UNCHANGED <<resp, req>>
    /\ UNCHANGED <<now, cache, db, call, written>>

\* get_contact, lines 192-199: the database query.  When the manager returns
\* None the route raises HTTPException(404) inside its own try block, whose
\* except Exception clause answers 500.
ContactQuery(p) ==
    /\ pc[p] = "query" /\ req[p].kind = "contact"
    /\ LET row == db[req[p].contact_id]
           contact == IF row # Nil /\ ~row.is_deleted THEN row ELSE Nil
       IN
       IF contact = Nil
       THEN /\ pc' = [pc EXCEPT ![p] = "done"]
            /\ resp' = [resp EXCEPT ![p] =
                          Response(500, {"Internal server error"}, Nil)]
            /\ req' = req
       ELSE /\ pc' = [pc EXCEPT ![p] = "fill"]
            /\ req' = [req EXCEPT ![p].found = contact]
            /\ resp' = resp
    /\ steps' = [steps EXCEPT ![p] = Append(@, "db_query")]
    /\ UNCHANGED <<now, cache, db, call, written>>

\* get_contact, lines 199-207: _cache_contact and the return; a failing write
\* raises inside the try block and is raised again by the except clause
ContactFill(p) ==
    /\ pc[p] = "fill" /\ req[p].kind = "contact"
    /\ \E redis_fails \in BOOLEAN :
         IF redis_fails
         THEN /\ AfterRaise(p, "cache_set_failed")
              /\ cache' = cache
         ELSE /\ cache' = redis_setex(cache,
                              contact_cache_key("contact", req[p].contact_id),
                              CONTACT_CACHE_TTL,
                              json_dumps(Contact_to_dict(req[p].found)), now)
              /\ pc' = [pc EXCEPT ![p] = "done"]
              /\ resp' = [resp EXCEPT ![p] =
                            Response(200, {}, Contact_to_dict(req[p].found))]
              /\ steps' = [steps EXCEPT ![p] = Append(@, "cache_set")]
              /\ req' = req
    /\ UNCHANGED <<now, db, call, written>>

----------------------------------------------------------------------------
(* The services                                                             *)

\* The response has been sent; the slot takes the next request
Return(p) ==
    /\ pc[p] = "done"
    /\ pc' = [pc EXCEPT ![p] = "idle"]
    /\ req' = [req EXCEPT ![p] = NoReq]
    /\ resp' = [resp EXCEPT ![p] = NoResp]
    /\ steps' = [steps EXCEPT ![p] = <<>>]
    /\ UNCHANGED <<now, cache, db, call, written>>

Tick ==
    /\ now < NowStart + MaxTicks
    /\ now' = now + 1
    /\ UNCHANGED <<cache, db, pc, req, resp, steps, call, written>>

NoCall == [fn |-> "none"]

Init ==
    /\ now = NowStart
    /\ cache = <<>>
    /\ db = [c \in ContactIds |->
               IF c = "c1"
               THEN [id |-> "c1", phone_number |-> "+15550100",
                     first_name |-> "Ann", organization_id |-> "org-1",
                     version |-> 2,
                     is_deleted |-> FALSE]
               ELSE Nil]
    /\ pc = [p \in Procs |-> "idle"]
    /\ req = [p \in Procs |-> NoReq]
    /\ resp = [p \in Procs |-> NoResp]
    /\ steps = [p \in Procs |-> <<>>]
    /\ call = NoCall
    /\ written = <<>>

Next ==
    \/ \E p \in Procs, r \in ReportRequests : SubmitReport(p, r)
    \/ \E p \in Procs : ReportLookup(p)
    \/ \E p \in Procs : ReportCompute(p)
    \/ \E p \in Procs, r \in DashboardRequests : SubmitDashboard(p, r)
    \/ \E p \in Procs : DashboardLookup(p)
    \/ \E p \in Procs : DashboardCompute(p)
    \/ \E p \in Procs, c \in ContactIds : SubmitContact(p, c)
    \/ \E p \in Procs : ContactCacheGet(p)
    \/ \E p \in Procs : ContactQuery(p)
    \/ \E p \in Procs : ContactFill(p)
    \/ \E p \in Procs : Return(p)
    \/ Tick

Spec == Init /\ [][Next]_vars

----------------------------------------------------------------------------
(* SpecUnit: the functions applied directly to bounded arguments            *)

MaxMetrics == 2

\* Ranges for the validators and the partitioning: those of the requests, and
\* ranges ending now of 90 minutes, 24 hours, 24 hours and a second, 168 hours,
\* 168 hours and a second
UnitRanges ==
    Ranges \cup {<<NowStart - d, NowStart>> :
                    d \in {Hour + Hour \div 2, 24 * Hour, 24 * Hour + 1,
                           168 * Hour, 168 * Hour + 1}}

\* The 24-hour ranges the aggregation is asked about, one starting on a whole
\* hour and one starting half past
AggRanges == {<<NowStart - 2 - 24 * Hour, NowStart - 2>>,
              <<NowStart - 2 - 24 * Hour - Hour \div 2, NowStart - 2 - Hour \div 2>>}

\* Timestamps of metrics inside a range
AggTimestamps(rg) == {rg[1], rg[1] + Hour, rg[2] - 1, rg[2]}

SeqsUpTo(S, n) == UNION {[1..k -> S] : k \in 0..n}

CallReportRequest(rg, tp) ==
    /\ call' = [fn |-> "ReportRequest", start_time |-> rg[1], end_time |-> rg[2],
                time_period |-> tp, at |-> now,
                result |-> ReportRequestErrors(
                    [start_time |-> rg[1], end_time |-> rg[2], time_period |-> tp],
                    now)]
    /\ UNCHANGED <<now, cache, db, pc, req, resp, steps, written>>

CallBaseReport(rg) ==
    /\ call' = [fn |-> "BaseReport", start_time |-> rg[1], end_time |-> rg[2],
                at |-> now,
                result |-> BaseReport_post_init(rg[1], rg[2], now)]
    /\ UNCHANGED <<now, cache, db, pc, req, resp, steps, written>>

CallGroupByTimePeriod(rg, timestamps, tp) ==
    /\ call' = [fn |-> "group_by_time_period", start_time |-> rg[1],
                end_time |-> rg[2], timestamps |-> timestamps, time_period |-> tp,
                at |-> now,
                result |-> group_by_time_period(timestamps, tp)]
    /\ UNCHANGED <<now, cache, db, pc, req, resp, steps, written>>

NextUnit ==
    \/ \E rg \in UnitRanges, tp \in ReportPeriods : CallReportRequest(rg, tp)
    \/ \E rg \in UnitRanges : CallBaseReport(rg)
    \/ \E rg \in AggRanges, tp \in {"hourly", "daily", "weekly", "monthly"} :
         \E timestamps \in SeqsUpTo(AggTimestamps(rg), MaxMetrics) :
            CallGroupByTimePeriod(rg, timestamps, tp)
    \/ Tick

SpecUnit == Init /\ [][NextUnit]_vars

----------------------------------------------------------------------------
(* SpecCache: the cache operations of the report and dashboard routes       *)
(* applied directly, in any order, by any number of callers                 *)

\* Requests whose keys are written and read; the first two have one key
KeyRequests ==
    {[organization_id |-> k[1], report_type |-> k[2],
      start_time |-> NowStart - Hour, end_time |-> NowStart] :
        k \in {<<<<"acme">>, <<"x", ":", "delivery">>>>,
               <<<<"acme", ":", "x">>, <<"delivery">>>>,
               <<<<"acme">>, <<"delivery">>>>}}

\* Report documents: a statistics value (hundredths, or nan) and the
\* partition boundaries of time_partitions
Docs ==
    {[statistics |-> st, partition_boundaries |-> bs] :
        st \in {[nan |-> FALSE, v |-> 9912], [nan |-> TRUE, v |-> 0]},
        bs \in {<<>>, <<NowStart - Hour>>}}

DashboardBodies ==
    {[delivery_metrics |-> v, cache_hit |-> FALSE] : v \in {9912, 10000}}

DashboardKey == dashboard_cache_key(<<"acme">>, "day")

CallCacheReport(r, doc) ==
    /\ \E redis_fails \in BOOLEAN :
         LET cache_key == get_cache_key(r) IN
         /\ cache' = cache_report(cache, cache_key, doc, now, redis_fails)
         /\ written' = IF redis_fails THEN written
                       ELSE (cache_key :> doc) @@ written
         /\ call' = [fn |-> "cache_report", key |-> cache_key, doc |-> doc,
                     redis_fails |-> redis_fails, at |-> now,
                     prev |-> redis_get(cache, cache_key, now)]
    /\ UNCHANGED <<now, db, pc, req, resp, steps>>

CallGetCachedReport(r) ==
    /\ \E redis_fails \in BOOLEAN :
         LET cache_key == get_cache_key(r) IN
         call' = [fn |-> "get_cached_report", key |-> cache_key,
                  redis_fails |-> redis_fails, at |-> now,
                  result |-> get_cached_report(cache, cache_key, now, redis_fails)]
    /\ UNCHANGED <<now, cache, db, pc, req, resp, steps, written>>

CallDashboardStore(body) ==
    /\ cache' = dashboard_store(cache, DashboardKey, body, now)
    /\ call' = [fn |-> "dashboard_store", key |-> DashboardKey, doc |-> body,
                at |-> now, prev |-> redis_get(cache, DashboardKey, now)]
    /\ UNCHANGED <<now, db, pc, req, resp, steps, written>>

CallDashboardLoad ==
    /\ redis_get(cache, DashboardKey, now) # Nil
    /\ call' = [fn |-> "dashboard_load", key |-> DashboardKey, at |-> now,
                result |-> json_loads(redis_get(cache, DashboardKey, now))]
    /\ UNCHANGED <<now, cache, db, pc, req, resp, steps, written>>

NextCache ==
    \/ \E r \in KeyRequests, doc \in Docs : CallCacheReport(r, doc)
    \/ \E r \in KeyRequests : CallGetCachedReport(r)
    \/ \E body \in DashboardBodies : CallDashboardStore(body)
    \/ CallDashboardLoad
    \/ Tick

SpecCache == Init /\ [][NextCache]_vars

----------------------------------------------------------------------------
(* models/metrics.py and routes/metrics.py: MessageMetric                   *)
(* Numbers that are quotients are kept exact, as fractions num/den          *)

Rat(n, d) == IF d < 0 THEN [num |-> -n, den |-> -d] ELSE [num |-> n, den |-> d]

RatLE(a, b) == a.num * b.den <= b.num * a.den

RatLT(a, b) == a.num * b.den < b.num * a.den

RatEq(a, b) == a.num * b.den = b.num * a.den

\* round(x, 2): the nearest multiple of 0.01, a tie going to the even one
round2(x) ==
    LET q == (100 * x.num) \div x.den
        r == (100 * x.num) % x.den
    IN  IF 2 * r > x.den \/ (2 * r = x.den /\ q % 2 = 1)
        THEN Rat(q + 1, 100)
        ELSE Rat(q, 100)

\* calculate_delivery_rate without the factor 100
calculate_delivery_rate_fraction(total_messages, delivered_messages) ==
    IF total_messages = 0
    THEN [rate |-> Rat(0, 1), errors |-> <<>>]
    ELSE [rate |-> round2(Rat(delivered_messages, total_messages)),
          errors |-> <<>>]

\* models/metrics.py MessageMetric.calculate_delivery_rate: the rate returned
\* and the entries it appends to validation_errors
calculate_delivery_rate(total_messages, delivered_messages) ==
    IF total_messages = 0
    THEN [rate |-> Rat(0, 1), errors |-> <<>>]
    ELSE LET rate == Rat(100 * delivered_messages, total_messages) IN
         [rate |-> round2(rate),
          errors |-> IF RatLT(rate, Rat(99, 1))
                     THEN <<"Delivery rate below SLA requirement of 99%">>
                     ELSE <<>>]

\* models/metrics.py BaseMetric.validate: the error list it builds; uuid_ok
\* says whether uuid.UUID accepts metric_id
BaseMetric_validate(uuid_ok, organization_id, timestamp, utcnow) ==
    (IF uuid_ok THEN <<>> ELSE <<"Invalid metric_id format">>)
    \o (IF matches_org_regex(organization_id) THEN <<>>
        ELSE <<"Invalid organization_id format">>)
    \o (IF timestamp > utcnow THEN <<"Timestamp cannot be in the future">>
        ELSE <<>>)

\* models/metrics.py MessageMetric.__post_init__: BaseMetric.__post_init__
\* validates and sets is_valid, then the rate is computed, then the counts are
\* checked; is_valid is not assigned again
MessageMetric_post_init(m, utcnow) ==
    LET base_errors == BaseMetric_validate(m.uuid_ok, m.organization_id,
                                           m.timestamp, utcnow)
        is_valid == Len(base_errors) = 0
        dr == calculate_delivery_rate(m.total_messages, m.delivered_messages)
        negative == IF m.total_messages < 0 \/ m.delivered_messages < 0
                       \/ m.failed_messages < 0
                    THEN <<"Message counts cannot be negative">>
                    ELSE <<>>
        short == IF m.total_messages < m.delivered_messages + m.failed_messages
                 THEN <<"Total messages must be >= delivered + failed messages">>
                 ELSE <<>>
    IN  [total_messages |-> m.total_messages,
         delivered_messages |-> m.delivered_messages,
         failed_messages |-> m.failed_messages,
         timestamp |-> m.timestamp,
         is_valid |-> is_valid,
         validation_errors |-> base_errors \o dr.errors \o negative \o short,
         delivery_rate |-> dr.rate]

\* routes/metrics.py MessageMetric.__post_init__, lines 88-90: the rate and
\* the sla_compliant entry of the metadata
routes_MessageMetric_post_init(total_messages, delivered_messages) ==
    LET delivery_rate == IF total_messages > 0
                         THEN Rat(100 * delivered_messages, total_messages)
                         ELSE Rat(0, 1)
    IN  [delivery_rate |-> delivery_rate,
         sla_compliant |-> RatLE(Rat(99, 1), delivery_rate)]

RECURSIVE SumOver(_, _)
SumOver(s, field) ==
    IF s = <<>> THEN 0 ELSE s[1][field] + SumOver(Tail(s), field)

\* models/reports.py MessageDeliveryReport._calculate_average_delivery_rate
calculate_average_delivery_rate(metrics) ==
    IF metrics = <<>>
    THEN Rat(0, 1)
    ELSE LET total_messages == SumOver(metrics, "total_messages")
             total_delivered == SumOver(metrics, "delivered_messages")
         IN  IF total_messages > 0
             THEN round2(Rat(100 * total_delivered, total_messages))
             ELSE Rat(0, 1)

----------------------------------------------------------------------------
(* SpecMetrics: metrics built from bounded counts, and the rates derived    *)
(* from them                                                                *)

MaxCount == 3

Counts == -1..MaxCount

\* Constructor arguments of a models/metrics.py MessageMetric
MetricInputs ==
    [uuid_ok : BOOLEAN, organization_id : Orgs,
     timestamp : {NowStart, NowStart + MaxTicks + 1},
     total_messages : Counts, delivered_messages : Counts,
     failed_messages : Counts]

\* The raw counts of the metrics a report averages
ReportMetrics ==
    {[total_messages |-> c[1], delivered_messages |-> c[2]] :
        c \in {<<0, 0>>, <<1, 1>>, <<MaxCount, 1>>, <<MaxCount, MaxCount - 1>>}}

CallMessageMetric(m) ==
    /\ call = NoCall
    /\ call' = [fn |-> "models.MessageMetric", input |-> m, at |-> now,
                total_messages |-> m.total_messages,
                delivered_messages |-> m.delivered_messages,
                result |-> MessageMetric_post_init(m, now)]
    /\ UNCHANGED <<now, cache, db, pc, req, resp, steps, written>>

CallRoutesMessageMetric(total_messages, delivered_messages) ==
    /\ call = NoCall
    /\ call' = [fn |-> "routes.MessageMetric", at |-> now,
                total_messages |-> total_messages,
                delivered_messages |-> delivered_messages,
                result |-> routes_MessageMetric_post_init(total_messages,
                                                          delivered_messages)]
    /\ UNCHANGED <<now, cache, db, pc, req, resp, steps, written>>

CallAverageDeliveryRate(metrics) ==
    /\ call = NoCall
    /\ call' = [fn |-> "average_delivery_rate", at |-> now, metrics |-> metrics,
                total_messages |-> SumOver(metrics, "total_messages"),
                delivered_messages |-> SumOver(metrics, "delivered_messages"),
                result |-> [delivery_rate |->
                              calculate_average_delivery_rate(metrics)]]
    /\ UNCHANGED <<now, cache, db, pc, req, resp, steps, written>>

\* The caller is done with the result of its call
Forget ==
    /\ call # NoCall
    /\ call' = NoCall
    /\ UNCHANGED <<now, cache, db, pc, req, resp, steps, written>>

NextMetrics ==
    \/ \E m \in MetricInputs : CallMessageMetric(m)
    \/ \E t \in Counts, d \in Counts : CallRoutesMessageMetric(t, d)
    \/ \E metrics \in SeqsUpTo(ReportMetrics, MaxMetrics) :
          CallAverageDeliveryRate(metrics)
    \/ Forget
    \/ Tick

SpecMetrics == Init /\ [][NextMetrics]_vars

----------------------------------------------------------------------------
(* Floating-point numbers.  numpy computes in binary floating point with    *)
(* round-to-nearest, ties to even.  A float is m * 2^e, kept in lowest      *)
(* terms (m odd, or m = 0 and e = 0); every operation gives the float       *)
(* nearest to the exact result.  The code's floats carry 53 significant     *)
(* bits; the model's carry Precision bits and have no exponent limits.      *)

Precision == 7

RECURSIVE Pow2(_)
Pow2(k) == IF k <= 0 THEN 1 ELSE 2 * Pow2(k - 1)

RECURSIVE BitLen(_)
BitLen(n) == IF n = 0 THEN 0 ELSE 1 + BitLen(n \div 2)

RECURSIVE Canon(_, _)
Canon(m, e) ==
    IF m = 0 THEN [m |-> 0, e |-> 0]
    ELSE IF m % 2 = 0 THEN Canon(m \div 2, e + 1)
         ELSE [m |-> m, e |-> e]

\* n * 2^e, n >= 0, rounded to Precision bits, ties to even
RoundNearestEven(n, e) ==
    LET k == BitLen(n) - Precision IN
    IF k <= 0
    THEN Canon(n, e)
    ELSE LET q == n \div Pow2(k)
             r == n % Pow2(k)
             half == Pow2(k - 1)
         IN  IF r > half \/ (r = half /\ q % 2 = 1)
             THEN Canon(q + 1, e + k)
             ELSE Canon(q, e + k)

FNeg(x) == [m |-> -x.m, e |-> x.e]

\* The float nearest to n * 2^e
fl(n, e) == IF n < 0 THEN FNeg(RoundNearestEven(-n, e)) ELSE RoundNearestEven(n, e)

FromInt(n) == Canon(n, 0)

\* x <= y and x < y, exactly
FLE(x, y) ==
    LET e == IF x.e < y.e THEN x.e ELSE y.e
    IN  x.m * Pow2(x.e - e) <= y.m * Pow2(y.e - e)

FLT(x, y) == ~FLE(y, x)

fl_add(x, y) ==
    LET e == IF x.e < y.e THEN x.e ELSE y.e
    IN  fl(x.m * Pow2(x.e - e) + y.m * Pow2(y.e - e), e)

fl_sub(x, y) == fl_add(x, FNeg(y))

fl_mul(x, y) == fl(x.m * y.m, x.e + y.e)

\* The float nearest to (a / b) * 2^e for integers a and b > 0: the quotient
\* to Precision + 2 bits or more, a last bit recording a non-zero remainder
DivRound(a, b, e) ==
    LET s == Precision + 2 + BitLen(b)
        n == (IF a < 0 THEN -a ELSE a) * Pow2(s)
        q == n \div b
        sticky == IF n % b # 0 THEN 1 ELSE 0
        mag == RoundNearestEven(2 * q + sticky, e - s - 1)
    IN  IF a < 0 THEN FNeg(mag) ELSE mag

\* x / y, y # 0
fl_div(x, y) ==
    IF y.m < 0 THEN DivRound(-x.m, -y.m, x.e - y.e)
    ELSE DivRound(x.m, y.m, x.e - y.e)

RECURSIVE isqrt_loop(_, _, _)
isqrt_loop(n, r, bit) ==
    IF bit = 0 THEN r
    ELSE IF (r + bit) * (r + bit) <= n
         THEN isqrt_loop(n, r + bit, bit \div 2)
         ELSE isqrt_loop(n, r, bit \div 2)

\* The largest r with r * r <= n
isqrt(n) == isqrt_loop(n, 0, Pow2((BitLen(n) + 1) \div 2))

\* np.sqrt(x), x >= 0
fl_sqrt(x) ==
    IF x.m = 0 THEN x
    ELSE LET need == 2 * Precision + 4 - BitLen(x.m)
             t0 == IF need < 0 THEN 0 ELSE need
             t == IF (x.e - t0) % 2 = 0 THEN t0 ELSE t0 + 1
             n == x.m * Pow2(t)
             r == isqrt(n)
             sticky == IF r * r # n THEN 1 ELSE 0
         IN  RoundNearestEven(2 * r + sticky, (x.e - t) \div 2 - 1)

----------------------------------------------------------------------------
(* numpy reductions used by services/calculator.py                          *)

RECURSIVE sum_loop(_, _, _, _)
\* res += a[i] for i = from .. to
sum_loop(a, res, from, to) ==
    IF from > to THEN res
    ELSE sum_loop(a, fl_add(res, a[from]), from + 1, to)

RECURSIVE lane_sum(_, _, _, _)
\* one of the eight accumulators of the unrolled loop: a[j], a[j+8], ...
lane_sum(a, r, i, last) ==
    IF i > last THEN r ELSE lane_sum(a, fl_add(r, a[i]), i + 8, last)

\* np.add.reduce over a contiguous array of n < 129 floats (pairwise_sum):
\* a plain loop for n < 8, else eight accumulators over the multiple of 8,
\* combined in pairs, then the rest added one by one
\* res = ((r[0] + r[1]) + (r[2] + r[3])) + ((r[4] + r[5]) + (r[6] + r[7]))
combine_lanes(r) ==
    fl_add(fl_add(fl_add(r[1], r[2]), fl_add(r[3], r[4])),
           fl_add(fl_add(r[5], r[6]), fl_add(r[7], r[8])))

\* The eight accumulators over the first `last` elements
lanes(a, last) ==
    [j \in 1..8 |-> lane_sum(a, a[j], j + 8, last)]

np_sum(a) ==
    IF Len(a) < 8
    THEN sum_loop(a, FromInt(0), 1, Len(a))
    ELSE sum_loop(a, combine_lanes(lanes(a, Len(a) - (Len(a) % 8))),
                  Len(a) - (Len(a) % 8) + 1, Len(a))

\* The sum, not divided by the sample size
np_mean_undivided(a) ==
    np_sum(a)

\* np.mean of a non-empty array
np_mean(a) ==
    fl_div(np_sum(a), FromInt(Len(a)))

\* np.std of a non-empty array: sqrt(mean(abs(a - mean(a)) ** 2))
fl_square(x) ==
    fl_mul(x, x)

\* x = a - arrmean; x = x * x
squared_deviations(a, arrmean) ==
    [i \in DOMAIN a |-> fl_square(fl_sub(a[i], arrmean))]

np_std(a) ==
    fl_sqrt(fl_div(np_sum(squared_deviations(a, np_mean(a))), FromInt(Len(a))))

\* np.min and np.max of a non-empty array
np_min(a) ==
    CHOOSE x \in {a[i] : i \in DOMAIN a} : \A i \in DOMAIN a : FLE(x, a[i])

np_max(a) ==
    CHOOSE x \in {a[i] : i \in DOMAIN a} : \A i \in DOMAIN a : FLE(a[i], x)

\* The sample size from which a confidence interval is given
CI_MIN_SAMPLE == 30

\* z_score = 1.96, as the nearest float
z_score == DivRound(196, 100, 0)

\* The size test without its last admitted size
has_confidence_interval_above(data) ==
    Len(data) > CI_MIN_SAMPLE

\* len(data) >= 30
has_confidence_interval(data) ==
    Len(data) >= CI_MIN_SAMPLE

\* The 'basic_stats' entry, lines 256-262, without the median
basic_stats(data) ==
    [mean |-> np_mean(data), std |-> np_std(data),
     min |-> np_min(data), max |-> np_max(data)]

\* Lines 271-272 and 276: z_score * standard_error, with
\* standard_error = np.std(data) / np.sqrt(len(data))
margin_of_error(std, n) ==
    fl_mul(z_score, fl_div(std, fl_sqrt(FromInt(n))))

\* Lines 275-278: mean - margin and mean + margin
confidence_interval(mean, margin) ==
    [lower |-> fl_sub(mean, margin), upper |-> fl_add(mean, margin)]

\* services/calculator.py calculate_statistical_summary.  Over an empty array
\* np.mean, np.median and np.std give nan with a warning and np.min raises.
\* The median and percentile entries are not modelled.
calculate_statistical_summary(data) ==
    IF data = <<>>
    THEN Raise("ValueError",
               "zero-size array to reduction operation minimum which has no identity")
    ELSE IF has_confidence_interval(data)
    THEN Ok([basic_stats |-> basic_stats(data),
             confidence_interval |->
                 confidence_interval(np_mean(data),
                                     margin_of_error(np_std(data), Len(data)))])
    ELSE Ok([basic_stats |-> basic_stats(data)])

\* np.mean(values >= threshold) and np.mean(values < threshold): the booleans
\* are summed as 1.0 and 0.0, exactly, and the count is divided by the size
fraction_where(values, holds(_)) ==
    DivRound(Cardinality({i \in DOMAIN values : holds(values[i])}), Len(values), 0)

\* A decimal number num/den as the nearest float
to_float(x) == DivRound(x.num, x.den, 0)

\* MetricsCalculator._calculate_historical_trends, lines 189-200; n_hist is the
\* number of historical rows selected.  np.polyfit rejects an empty vector,
\* and _calculate_yoy_change is not defined
calculate_historical_trends(n_hist) ==
    IF n_hist = 0
    THEN Raise("TypeError", "expected non-empty vector for x")
    ELSE Raise("AttributeError",
               "'MetricsCalculator' object has no attribute '_calculate_yoy_change'")

\* The 'current_statistics' entry, lines 86-91
current_statistics(valid_metrics, delivery_rates) ==
    [total_messages |-> SumOver(valid_metrics, "total_messages"),
     average_delivery_rate |-> np_mean(delivery_rates),
     std_deviation |-> np_std(delivery_rates),
     sla_compliance |->
         fraction_where(delivery_rates, LAMBDA x : FLE(FromInt(99), x))]

\* delivery_rates = np.array([m.delivery_rate for m in valid_metrics]), line 69
delivery_rates_of(valid_metrics) ==
    [i \in DOMAIN valid_metrics |-> to_float(valid_metrics[i].delivery_rate)]

\* Lines 73-96: the first of the two calls that raises ends the function,
\* else the result dict is returned
delivery_statistics_result(valid_metrics, delivery_rates, stats_summary, historical_comparison) ==
    IF stats_summary.exc # "none" THEN stats_summary
    ELSE IF historical_comparison.exc # "none" THEN historical_comparison
    ELSE Ok([current_statistics |->
                 current_statistics(valid_metrics, delivery_rates),
             statistical_analysis |-> stats_summary.value,
             historical_trends |-> historical_comparison.value])

\* MetricsCalculator.calculate_delivery_statistics
calculate_delivery_statistics(metrics, n_hist) ==
    LET valid_metrics == SelectSeq(metrics, LAMBDA m : m.is_valid) IN
    IF valid_metrics = <<>>
    THEN Raise("ValueError", "No valid metrics provided for analysis")
    ELSE delivery_statistics_result(
             valid_metrics, delivery_rates_of(valid_metrics),
             calculate_statistical_summary(delivery_rates_of(valid_metrics)),
             calculate_historical_trends(n_hist))

\* MetricsCalculator.calculate_engagement_statistics: its first statement
\* calls _apply_engagement_filters, which is not defined
calculate_engagement_statistics(metrics) ==
    Raise("AttributeError",
          "'MetricsCalculator' object has no attribute '_apply_engagement_filters'")

\* MetricsCalculator._calculate_health_status is not defined
calculate_health_status(metrics) ==
    Raise("AttributeError",
          "'MetricsCalculator' object has no attribute '_calculate_health_status'")

\* MetricsCalculator.calculate_performance_statistics; response_times are the
\* response_time fields of the metrics
calculate_performance_statistics(response_times) ==
    LET health_status == calculate_health_status(response_times) IN
    IF health_status.exc # "none" THEN health_status
    ELSE Ok([response_time_analysis |->
                [average |-> np_mean(response_times),
                 sla_compliance |->
                     fraction_where(response_times,
                                    LAMBDA x : FLT(x, FromInt(2)))],
             health_indicators |-> health_status.value])

\* routes/reports.py get_delivery_report, lines 168-172: the "sla_compliance"
\* entry of the report, each value with its Python type
compile_sla_compliance(delivery_stats) ==
    [threshold |-> [type |-> "float", value |-> to_float(Rat(SLA_THRESHOLDS.delivery_rate, 100))],
     current_rate |-> [type |-> "float",
                       value |-> delivery_stats.current_statistics.average_delivery_rate],
     compliant |-> [type |-> "float",
                    value |-> delivery_stats.current_statistics.sla_compliance]]

----------------------------------------------------------------------------
(* SpecStats: the statistics functions applied to bounded samples           *)

MaxSample == 30

\* Observations: delivery rates of 98, 99 and 100 percent
StatValues == {FromInt(98), FromInt(99), FromInt(100)}

\* Response times of 1.5, 2 and 2.5 seconds
ResponseTimes == {Canon(3, -1), FromInt(2), Canon(5, -1)}

SmallSampleLen == 3

\* Samples: every sequence of up to three observations, and samples of every
\* size up to MaxSample made of one observation repeated, or one observation
\* followed by another repeated
Samples ==
    SeqsUpTo(StatValues, SmallSampleLen)
    \cup {[i \in 1..n |-> IF i <= k THEN a ELSE b] :
            n \in 1..MaxSample, k \in 0..1,
            a \in StatValues, b \in StatValues}

\* Metrics as the constructor leaves them: 1 of 1 delivered, 1 of 2, none of
\* none, each with a good or a bad metric_id
StatMetrics ==
    {MessageMetric_post_init(
        [uuid_ok |-> ok, organization_id |-> <<"acme">>, timestamp |-> NowStart,
         total_messages |-> c[1], delivered_messages |-> c[2],
         failed_messages |-> c[1] - c[2]], NowStart) :
        ok \in BOOLEAN, c \in {<<1, 1>>, <<2, 1>>, <<0, 0>>}}

CallStatisticalSummary(data) ==
    /\ call = NoCall
    /\ call' = [fn |-> "calculate_statistical_summary", data |-> data,
                empty |-> (data = <<>>), at |-> now,
                result |-> calculate_statistical_summary(data)]
    /\ UNCHANGED <<now, cache, db, pc, req, resp, steps, written>>

CallDeliveryStatistics(metrics, n_hist) ==
    /\ call = NoCall
    /\ call' = [fn |-> "calculate_delivery_statistics", metrics |-> metrics,
                empty |-> (\A i \in DOMAIN metrics : ~metrics[i].is_valid),
                at |-> now,
                result |-> calculate_delivery_statistics(metrics, n_hist)]
    /\ UNCHANGED <<now, cache, db, pc, req, resp, steps, written>>

CallEngagementStatistics(metrics) ==
    /\ call = NoCall
    /\ call' = [fn |-> "calculate_engagement_statistics", metrics |-> metrics,
                empty |-> (metrics = <<>>), at |-> now,
                result |-> calculate_engagement_statistics(metrics)]
    /\ UNCHANGED <<now, cache, db, pc, req, resp, steps, written>>

CallPerformanceStatistics(response_times) ==
    /\ call = NoCall
    /\ call' = [fn |-> "calculate_performance_statistics",
                data |-> response_times,
                empty |-> (response_times = <<>>), at |-> now,
                result |-> calculate_performance_statistics(response_times)]
    /\ UNCHANGED <<now, cache, db, pc, req, resp, steps, written>>

\* Lines 163-173 of get_delivery_report applied to the statistics of a
\* non-empty set of valid metrics
CallCompileReport(metrics) ==
    /\ call = NoCall
    /\ \A i \in DOMAIN metrics : metrics[i].is_valid
    /\ metrics # <<>>
    /\ LET delivery_rates == [i \in DOMAIN metrics |->
                                 to_float(metrics[i].delivery_rate)]
           delivery_stats == [current_statistics |->
                                 current_statistics(metrics, delivery_rates)]
       IN  call' = [fn |-> "compile_report", data |-> delivery_rates, at |-> now,
                    result |-> compile_sla_compliance(delivery_stats)]
    /\ UNCHANGED <<now, cache, db, pc, req, resp, steps, written>>

NextStats ==
    \/ \E data \in Samples : CallStatisticalSummary(data)
    \/ \E metrics \in SeqsUpTo(StatMetrics, MaxMetrics), n_hist \in {0, 2} :
          CallDeliveryStatistics(metrics, n_hist)
    \/ \E metrics \in SeqsUpTo(StatMetrics, MaxMetrics) :
          CallEngagementStatistics(metrics)
    \/ \E data \in SeqsUpTo(ResponseTimes, MaxMetrics) :
          CallPerformanceStatistics(data)
    \/ \E metrics \in SeqsUpTo(StatMetrics, MaxMetrics) : CallCompileReport(metrics)
    \/ Forget
    \/ Tick

SpecStats == Init /\ [][NextStats]_vars

----------------------------------------------------------------------------
(* contact-service: ContactManager.create_contact and update_contact, each  *)
(* under @retry(stop=stop_after_attempt(MAX_RETRIES), wait=...), and the     *)
(* POST /contacts and PUT /contacts/{contact_id} routes that call them.      *)
(* Several workers of the service share the database and the Redis store;   *)
(* a worker runs one call at a time and its database round trips interleave *)
(* with those of the other workers.  In this specification db is the set of *)
(* rows of the contacts table.                                              *)

\* Bounds
NumWorkers == 2
MaxVersion == 3

Workers == 1..NumWorkers

\* phonenumbers.parse and is_valid_number: the text is a valid number
is_valid_number(phone_number) ==
    phone_number \in {"+1 415-555-2671", "+14155552671", "+14155552672"}

\* phonenumbers.format_number(parsed_number, PhoneNumberFormat.E164)
format_e164(phone_number) ==
    IF phone_number = "+1 415-555-2671" THEN "+14155552671" ELSE phone_number

\* ContactSchema(**contact_data): the phone_number validator stores the E.164
\* text; an invalid number raises ValidationError.  A str or a uuid.UUID
\* organization_id both become a UUID.
ContactSchema(contact_data) ==
    IF ~is_valid_number(contact_data.phone_number)
    THEN Raise("ValidationError", "Invalid phone number")
    ELSE Ok([phone_number |-> format_e164(contact_data.phone_number),
             organization_id |-> contact_data.organization_id.value])

\* uuid.UUID(x): the constructor calls x.replace, which a str has and a
\* uuid.UUID has not
uuid_UUID(x) ==
    IF x.type = "str" THEN Ok(x.value)
    ELSE Raise("AttributeError", "'UUID' object has no attribute 'replace'")

\* Contact.from_dict, lines 131-147, and Contact.__init__, lines 74-106
Contact_new(data, new_id) ==
    LET organization_id == uuid_UUID(data.organization_id) IN
    IF organization_id.exc # "none" THEN organization_id
    ELSE IF ~is_valid_number(data.phone_number)
    THEN Raise("ValueError", "Invalid phone number format")
    ELSE Ok([id |-> new_id,
             phone_number |-> format_e164(data.phone_number),
             first_name |-> data.first_name,
             organization_id |-> organization_id.value,
             version |-> 1,
             is_deleted |-> FALSE])

\* Contact.update, lines 149-167.  update_data.version is <<v>> for the int v
\* and <<>> when the dict has no version (dict.get gives None)
Contact_update(contact, update_data) ==
    IF update_data.version # <<>> /\ update_data.version # <<contact.version>>
    THEN Raise("ValueError", "Version conflict detected")
    ELSE Ok([contact EXCEPT !.first_name = update_data.first_name,
                            !.version = @ + 1])

\* uuid.uuid4() in Contact.__init__: an id no stored row has.  A worker holds
\* one new contact at a time, and the table only grows.
uuid4(p) == <<"uuid", p, Cardinality(db)>>

\* phone_number = Column(String(20), nullable=False, unique=True): the INSERT
\* fails when any row, deleted or not, of any organization, has the number
violates_unique_phone_number(rows, contact) ==
    \E row \in rows : row.phone_number = contact.phone_number

\* tenacity: what the decorated function raises once MAX_RETRIES attempts
\* have raised.  reraise is not set, so it is RetryError around the last
\* attempt and not the exception of the attempt.
RetryError(e) == Raise("RetryError", <<"RetryError", e.exc, e.msg>>)

\* routes/contacts.py create_contact, lines 60-93
create_contact_route(outcome) ==
    IF outcome.exc = "none"
    THEN Response(201, {}, Contact_to_dict(outcome.value))
    ELSE IF outcome.exc = "ValidationError"
    THEN Response(422, {outcome.msg}, Nil)
    ELSE IF outcome.exc = "ValueError"
    THEN Response(400, {outcome.msg}, Nil)
    ELSE Response(500, {"Internal server error"}, Nil)

\* routes/contacts.py update_contact, lines 142-174.  The HTTPException(404)
\* is raised inside the try block; it is not a ValueError, so the
\* except Exception clause answers 500.
update_contact_route(outcome) ==
    IF outcome.exc = "none" /\ outcome.value # Nil
    THEN Response(200, {}, Contact_to_dict(outcome.value))
    ELSE IF outcome.exc = "ValueError"
    THEN Response(409, {outcome.msg}, Nil)
    ELSE Response(500, {"Internal server error"}, Nil)

\* routes/contacts.py get_contact, lines 104-130.  The HTTPException(404) is
\* raised inside the try block, whose only clause is except Exception: 500.
get_contact_route(outcome) ==
    IF outcome.exc = "none" /\ outcome.value # Nil
    THEN Response(200, {}, Contact_to_dict(outcome.value))
    ELSE Response(500, {"Internal server error"}, Nil)

\* routes/contacts.py delete_contact, lines 184-211: 204 when the manager
\* reports success; the 404 is raised inside the try block and caught by
\* 'except Exception'
delete_contact_route(outcome) ==
    IF outcome.exc = "none" /\ outcome.value = TRUE
    THEN Response(204, {}, Nil)
    ELSE Response(500, {"Internal server error"}, Nil)

route_response(kind, outcome) ==
    IF kind = "create" THEN create_contact_route(outcome)
    ELSE IF kind = "get" THEN get_contact_route(outcome)
    ELSE IF kind = "delete" THEN delete_contact_route(outcome)
    ELSE update_contact_route(outcome)

\* The decorated call is over: the route answers
Finish(p, outcome) ==
    /\ pc' = [pc EXCEPT ![p] = "done"]
    /\ req' = [req EXCEPT ![p].outcome = outcome]
    /\ resp' = [resp EXCEPT ![p] = route_response(req[p].kind, outcome)]
    /\ steps' = [steps EXCEPT ![p] = Nil]

\* An attempt has raised e: the except clause rolls the session back, drops
\* what it held and raises e again; tenacity starts the next attempt or gives up
AttemptRaised(p, e) ==
    IF req[p].attempt < MAX_RETRIES
    THEN /\ req' = [req EXCEPT ![p].attempt = @ + 1]
         /\ pc' = [pc EXCEPT ![p] = IF req[p].kind = "get" THEN "lookup" ELSE "query"]
         /\ steps' = [steps EXCEPT ![p] = Nil]
         /\ resp' = resp
    ELSE Finish(p, RetryError(e))

\* The query of lines 112-116: a contact of the organization that is not
\* deleted has the phone number
phone_number_exists(rows, contact_data) ==
    /\ is_valid_number(contact_data.phone_number)
    /\ \E row \in rows :
          /\ row.phone_number = format_e164(contact_data.phone_number)
          /\ row.organization_id = contact_data.organization_id.value
          /\ ~row.is_deleted

\* The query of lines 240-243 (and 194-197): the contact with the id that is
\* not deleted, Nil when there is none
stored_contact(rows, contact_id) ==
    LET found == {row \in rows : row.id = contact_id /\ ~row.is_deleted} IN
    IF found = {} THEN Nil ELSE CHOOSE row \in found : TRUE

\* A caller passes contact_data to create_contact
SubmitCreate(p, contact_data) ==
    /\ pc[p] = "idle"
    /\ req' = [req EXCEPT ![p] =
                 [kind |-> "create", data |-> contact_data, attempt |-> 1,
                  outcome |-> Nil, applied |-> 0,
                  existed |-> phone_number_exists(db, contact_data)]]
    /\ pc' = [pc EXCEPT ![p] = "query"]
    /\ UNCHANGED <<now, cache, db, resp, steps, call, written>>

\* create_contact, lines 106-132: validation, the query for a contact with
\* the phone number in the organization, and session.add of the new contact
CreateQuery(p) ==
    /\ pc[p] = "query" /\ req[p].kind = "create"
    /\ LET contact_schema == ContactSchema(req[p].data)
           existing_contact == phone_number_exists(db, req[p].data)
           new_contact == Contact_new(req[p].data, uuid4(p))
       IN
       IF contact_schema.exc # "none" THEN AttemptRaised(p, contact_schema)
       ELSE IF existing_contact
       THEN AttemptRaised(p, Raise("ValueError",
                                   "Contact with this phone number already exists"))
       ELSE IF new_contact.exc # "none" THEN AttemptRaised(p, new_contact)
       ELSE /\ steps' = [steps EXCEPT ![p] = new_contact.value]
            /\ pc' = [pc EXCEPT ![p] = "commit"]
            /\ UNCHANGED <<req, resp>>
    /\ UNCHANGED <<now, cache, db, call, written>>

\* create_contact, line 134: session.commit() sends the INSERT and commits
CreateCommit(p) ==
    /\ pc[p] = "commit" /\ req[p].kind = "create"
    /\ IF violates_unique_phone_number(db, steps[p])
       THEN /\ AttemptRaised(p, Raise("IntegrityError",
                                      "duplicate key value violates unique constraint"))
            /\ db' = db
       ELSE /\ db' = db \cup {steps[p]}
            /\ pc' = [pc EXCEPT ![p] = "cache"]
            /\ req' = [req EXCEPT ![p].applied = @ + 1]
            /\ UNCHANGED <<resp, steps>>
    /\ UNCHANGED <<now, cache, call, written>>

\* create_contact, lines 137-145: _cache_contact and the return; a failing
\* Redis write raises inside the try block, after the commit
CreateCache(p) ==
    /\ pc[p] = "cache" /\ req[p].kind = "create"
    /\ \E redis_fails \in BOOLEAN :
         IF redis_fails
         THEN /\ AttemptRaised(p, Raise("ConnectionError", "Error connecting to redis"))
              /\ cache' = cache
         ELSE /\ cache' = redis_setex(cache,
                              contact_cache_key("contact", steps[p].id),
                              CONTACT_CACHE_TTL,
                              json_dumps(Contact_to_dict(steps[p])), now)
              /\ Finish(p, Ok(steps[p]))
    /\ UNCHANGED <<now, db, call, written>>

\* A caller passes contact_id and update_data to update_contact
SubmitUpdate(p, contact_id, update_data) ==
    /\ pc[p] = "idle"
    /\ req' = [req EXCEPT ![p] =
                 [kind |-> "update", contact_id |-> contact_id,
                  data |-> update_data, attempt |-> 1, outcome |-> Nil,
                  applied |-> 0, stored |-> stored_contact(db, contact_id)]]
    /\ pc' = [pc EXCEPT ![p] = "query"]
    /\ UNCHANGED <<now, cache, db, resp, steps, call, written>>

\* update_contact, lines 238-254: SELECT ... FOR UPDATE locks the row until
\* the commit or the rollback, so no other transaction writes the row between
\* the query and the commit
UpdateLocked(p) ==
    /\ pc[p] = "query" /\ req[p].kind = "update"
    /\ \A row \in db : row.version < MaxVersion
    /\ LET contact == stored_contact(db, req[p].contact_id)
           updated == Contact_update(contact, req[p].data)
       IN
       IF contact = Nil
       THEN /\ Finish(p, Ok(Nil))
            /\ db' = db
       ELSE IF req[p].data.version # <<contact.version>>
       THEN /\ AttemptRaised(p, Raise("ValueError", "Version conflict detected"))
            /\ db' = db
       ELSE IF updated.exc # "none"
       THEN /\ AttemptRaised(p, updated)
            /\ db' = db
       ELSE /\ db' = (db \ {contact}) \cup {updated.value}
            /\ steps' = [steps EXCEPT ![p] = updated.value]
            /\ pc' = [pc EXCEPT ![p] = "cache"]
            /\ req' = [req EXCEPT ![p].applied = @ + 1]
            /\ resp' = resp
    /\ UNCHANGED <<now, cache, call, written>>

\* update_contact, lines 256-268: redis delete, _cache_contact and the return
UpdateCache(p) ==
    /\ pc[p] = "cache" /\ req[p].kind = "update"
    /\ \E redis_fails \in BOOLEAN :
         IF redis_fails
         THEN /\ AttemptRaised(p, Raise("ConnectionError", "Error connecting to redis"))
              /\ cache' = cache
         ELSE /\ cache' = redis_setex(cache,
                              contact_cache_key("contact", steps[p].id),
                              CONTACT_CACHE_TTL,
                              json_dumps(Contact_to_dict(steps[p])), now)
              /\ Finish(p, Ok(steps[p]))
    /\ UNCHANGED <<now, db, call, written>>

\* The response has been sent; the worker takes the next call
ReturnContacts(p) ==
    /\ pc[p] = "done"
    /\ pc' = [pc EXCEPT ![p] = "idle"]
    /\ req' = [req EXCEPT ![p] = NoReq]
    /\ resp' = [resp EXCEPT ![p] = NoResp]
    /\ UNCHANGED <<now, cache, db, steps, call, written>>

ContactOrgs == {"org-1", "org-2"}
ContactData ==
    {[phone_number |-> ph, first_name |-> "Ann",
      organization_id |-> [type |-> "str", value |-> o]] :
         ph \in {"+1 415-555-2671", "+14155552671", "12345"},
         o \in ContactOrgs}
    \cup {[phone_number |-> "+14155552671", first_name |-> "Ann",
           organization_id |-> [type |-> "UUID", value |-> "org-1"]]}

UpdateData ==
    [version : {<<v>> : v \in 1..MaxVersion} \cup {<<>>}, first_name : {"Bob"}]

UpdateTargets == {row.id : row \in db} \cup {<<"uuid", 0, 0>>}

InitContacts ==
    /\ now = NowStart
    /\ cache = <<>>
    /\ db = {}
    /\ pc = [p \in Workers |-> "idle"]
    /\ req = [p \in Workers |-> NoReq]
    /\ resp = [p \in Workers |-> NoResp]
    /\ steps = [p \in Workers |-> Nil]
    /\ call = NoCall
    /\ written = <<>>

NextContacts ==
    \/ \E p \in Workers, contact_data \in ContactData : SubmitCreate(p, contact_data)
    \/ \E p \in Workers : CreateQuery(p)
    \/ \E p \in Workers : CreateCommit(p)
    \/ \E p \in Workers : CreateCache(p)
    \/ \E p \in Workers, contact_id \in UpdateTargets, update_data \in UpdateData :
         SubmitUpdate(p, contact_id, update_data)
    \/ \E p \in Workers : UpdateLocked(p)
    \/ \E p \in Workers : UpdateCache(p)
    \/ \E p \in Workers : ReturnContacts(p)

SpecContacts == InitContacts /\ [][NextContacts]_vars


----------------------------------------------------------------------------
(* contact-service: get_contact beside update_contact.  The table holds one *)
(* contact, created and cached by create_contact; workers read it and       *)
(* update it.                                                               *)

\* The contacts that update_contact calls on contact_id have returned
completed_updates(contact_id) ==
    {req[q].outcome.value : q \in
        {w \in Workers : /\ pc[w] = "done"
                         /\ req[w].kind = "update"
                         /\ req[w].contact_id = contact_id
                         /\ req[w].outcome.exc = "none"
                         /\ req[w].outcome.value # Nil}}

\* A caller passes contact_id to get_contact; completed keeps what the
\* update_contact calls that have returned by then returned
SubmitGet(p, contact_id) ==
    /\ pc[p] = "idle"
    /\ req' = [req EXCEPT ![p] =
                 [kind |-> "get", contact_id |-> contact_id, attempt |-> 1,
                  outcome |-> Nil, applied |-> 0,
                  stored |-> stored_contact(db, contact_id),
                  completed |-> completed_updates(contact_id)]]
    /\ pc' = [pc EXCEPT ![p] = "lookup"]
    /\ UNCHANGED <<now, cache, db, resp, steps, call, written>>

\* get_contact, lines 181-189: the cache read; a hit returns
\* Contact.from_dict(json.loads(cached_data))
GetCacheRead(p) ==
    /\ pc[p] = "lookup" /\ req[p].kind = "get"
    /\ \E redis_fails \in BOOLEAN :
         LET cached_data ==
                 redis_get(cache, contact_cache_key("contact", req[p].contact_id), now)
         IN
         IF redis_fails
         THEN AttemptRaised(p, Raise("ConnectionError", "Error connecting to redis"))
         ELSE IF cached_data # Nil
         THEN Finish(p, Ok(Contact_from_dict(json_loads(cached_data))))
         ELSE /\ pc' = [pc EXCEPT ![p] = "query"]
              /\ UNCHANGED <<req, resp, steps>>
    /\ UNCHANGED <<now, cache, db, call, written>>

\* get_contact, lines 192-197: the database query
GetQuery(p) ==
    /\ pc[p] = "query" /\ req[p].kind = "get"
    /\ LET contact == stored_contact(db, req[p].contact_id) IN
       IF contact = Nil
       THEN Finish(p, Ok(Nil))
       ELSE /\ steps' = [steps EXCEPT ![p] = contact]
            /\ pc' = [pc EXCEPT ![p] = "fill"]
            /\ UNCHANGED <<req, resp>>
    /\ UNCHANGED <<now, cache, db, call, written>>

\* get_contact, lines 199-207: _cache_contact(contact) and the return
GetFill(p) ==
    /\ pc[p] = "fill" /\ req[p].kind = "get"
    /\ \E redis_fails \in BOOLEAN :
         IF redis_fails
         THEN /\ AttemptRaised(p, Raise("ConnectionError", "Error connecting to redis"))
              /\ cache' = cache
         ELSE /\ cache' = redis_setex(cache,
                              contact_cache_key("contact", steps[p].id),
                              CONTACT_CACHE_TTL,
                              json_dumps(Contact_to_dict(steps[p])), now)
              /\ Finish(p, Ok(steps[p]))
    /\ UNCHANGED <<now, db, call, written>>

\* The contact as create_contact stored it
CreatedContact ==
    [id |-> <<"uuid", 1, 0>>, phone_number |-> "+14155552671",
     first_name |-> "Ann", organization_id |-> "org-1",
     version |-> 1, is_deleted |-> FALSE]

\* The state after one successful create_contact, with the cache entry it
\* wrote, or without it once its CACHE_TTL has passed
InitLookup ==
    /\ now = NowStart
    /\ cache \in {<<>>,
                  redis_setex(<<>>, contact_cache_key("contact", CreatedContact.id),
                              CONTACT_CACHE_TTL,
                              json_dumps(Contact_to_dict(CreatedContact)), NowStart)}
    /\ db = {CreatedContact}
    /\ pc = [p \in Workers |-> "idle"]
    /\ req = [p \in Workers |-> NoReq]
    /\ resp = [p \in Workers |-> NoResp]
    /\ steps = [p \in Workers |-> Nil]
    /\ call = NoCall
    /\ written = <<>>

\* DELETE /contacts/{contact_id} arrives
SubmitDelete(p, contact_id) ==
    /\ pc[p] = "idle"
    /\ req' = [req EXCEPT ![p] =
                 [kind |-> "delete", contact_id |-> contact_id, attempt |-> 1,
                  outcome |-> Nil, applied |-> 0,
                  stored |-> stored_contact(db, contact_id)]]
    /\ pc' = [pc EXCEPT ![p] = "delete"]
    /\ UNCHANGED <<now, cache, db, resp, steps, call, written>>

\* Line 190: ContactManager defines create_contact, get_contact and
\* update_contact and no delete_contact, so the attribute lookup raises
DeleteContact(p) ==
    /\ pc[p] = "delete"
    /\ Finish(p, Raise("AttributeError", "delete_contact"))
    /\ UNCHANGED <<now, cache, db, call, written>>

NextLookup ==
    \/ \E p \in Workers, contact_id \in UpdateTargets : SubmitGet(p, contact_id)
    \/ \E p \in Workers : GetCacheRead(p)
    \/ \E p \in Workers : GetQuery(p)
    \/ \E p \in Workers : GetFill(p)
    \/ \E p \in Workers, contact_id \in UpdateTargets, update_data \in UpdateData :
         SubmitUpdate(p, contact_id, update_data)
    \/ \E p \in Workers : UpdateLocked(p)
    \/ \E p \in Workers : UpdateCache(p)
    \/ \E p \in Workers, contact_id \in UpdateTargets : SubmitDelete(p, contact_id)
    \/ \E p \in Workers : DeleteContact(p)
    \/ \E p \in Workers : ReturnContacts(p)

SpecLookup == InitLookup /\ [][NextLookup]_vars


----------------------------------------------------------------------------
(* contact-service: models/group.py, GroupManager.update_group and          *)
(* bulk_add_contacts, PUT /groups/{group_id}.  In this specification db is   *)
(* the row of one group with its members; contacts are numbered.            *)

\* The member limit of Group.add_member and validate_member_count
MEMBER_LIMIT == 256

\* Bounds
MaxGroupVersion == 6
MaxBulk == 3

\* The contacts of the organization
GroupContacts == 1..(MEMBER_LIMIT + 1)

\* A contact id no contact of the organization has
MissingContact == 0

\* The 'append' listener on Group.members, lines 141-145
validate_member_count(target) ==
    IF target.member_count >= MEMBER_LIMIT
    THEN Raise("ValueError", "Group member limit exceeded")
    ELSE Ok(Nil)

\* Group.add_member, lines 106-127: the result and the group afterwards
Group_add_member(group, contact) ==
    IF group.member_count >= MEMBER_LIMIT
    THEN [result |-> Raise("ValueError", "Group member limit exceeded"),
          group |-> group]
    ELSE IF contact \in group.members
    THEN [result |-> Ok(FALSE), group |-> group]
    ELSE IF validate_member_count([group EXCEPT !.version = @ + 1]).exc # "none"
    THEN [result |-> validate_member_count([group EXCEPT !.version = @ + 1]),
          group |-> [group EXCEPT !.version = @ + 1]]
    ELSE [result |-> Ok(TRUE),
          group |-> [group EXCEPT !.version = @ + 1,
                                  !.members = @ \cup {contact},
                                  !.member_count = Cardinality(group.members \cup {contact})]]

\* The elements of a list
Elements(list) == {list[i] : i \in DOMAIN list}

\* contact_ids[i:i + batch_size], i counted from 0
Slice(list, i, size) ==
    [k \in 1..(IF Len(list) - i < size THEN Len(list) - i ELSE size) |-> list[i + k]]

\* bulk_add_contacts, lines 247-281, for one batch: the contacts found, the
\* appends (each one passes validate_member_count, which reads the
\* member_count written after the previous batch), the counts, the commit
bulk_add_batch(state, batch) ==
    LET group == state.group
        contacts == Elements(batch) \cap GroupContacts
        failed_ids == Elements(batch) \ contacts
        new == contacts \ group.members
        refused == validate_member_count(group).exc # "none"
        members == IF refused THEN group.members ELSE group.members \cup new
    IN  [group |-> [group EXCEPT !.members = members,
                                 !.member_count = Cardinality(members),
                                 !.version = @ + 1],
         results |-> [total |-> state.results.total,
                      successful |-> state.results.successful
                                       + (IF refused THEN 0 ELSE Cardinality(new)),
                      failed |-> state.results.failed
                                   + (IF refused THEN Cardinality(new) ELSE 0)
                                   + Cardinality(failed_ids)]]

RECURSIVE bulk_add_loop(_, _, _, _)
\* for i in range(0, len(contact_ids), self._batch_size)
bulk_add_loop(state, contact_ids, i, batch_size) ==
    IF i >= Len(contact_ids) THEN state
    ELSE bulk_add_loop(bulk_add_batch(state, Slice(contact_ids, i, batch_size)),
                       contact_ids, i + batch_size, batch_size)

\* GroupManager.bulk_add_contacts: the result and the group afterwards;
\* found tells whether the query of lines 236-240 gave the group
bulk_add_contacts(group, found, contact_ids, batch_size) ==
    IF ~found
    THEN [result |-> Raise("ValueError", "Group not found or access denied"),
          group |-> group]
    ELSE LET final == bulk_add_loop(
                 [group |-> group,
                  results |-> [total |-> Len(contact_ids), successful |-> 0,
                               failed |-> 0]],
                 contact_ids, 0, batch_size)
         IN  [result |-> Ok(final.results), group |-> final.group]

\* GroupSchema has validate_version and no validate_name (models/group.py
\* 147-176): line 168 raises AttributeError
GroupSchema_validate_name(name) ==
    Raise("AttributeError", "validate_name")

\* The loop of lines 182-184: every key of update_data that is an attribute
\* of the group is assigned, 'version' included
group_set_fields(group, update_data) ==
    [group EXCEPT !.name = IF update_data.name = <<>> THEN @ ELSE update_data.name[1],
                  !.version = update_data.version]

\* GroupManager.update_group, lines 155-208: the result and the group
\* afterwards.  update_data.name is <<>> when the request sets no name.
update_group(group, found, update_data) ==
    IF ~found
    THEN [result |-> Raise("ValueError", "Group not found or access denied"),
          group |-> group]
    ELSE IF update_data.name # <<>>
    THEN [result |-> GroupSchema_validate_name(update_data.name[1]), group |-> group]
    ELSE [result |-> Ok(TRUE),
          group |-> [group_set_fields(group, update_data) EXCEPT !.version = @ + 1]]

\* routes/groups.py update_group, lines 166-184
update_group_route(update_data, result) ==
    IF result.exc = "none"
    THEN Response(200, {"Group updated successfully"},
                  [version |-> update_data.version + 1])
    ELSE IF result.exc = "ValueError"
    THEN Response(400, {result.msg}, Nil)
    ELSE Response(500, {"Failed to update group"}, Nil)

\* Group.__init__ (version 1, no members), then one bulk_add_contacts call
\* with the contacts 1..n in batches of batch_size: one version per batch
GroupWith(n, batch_size) ==
    [id |-> "g1", name |-> "Team",
     version |-> 1 + ((n + batch_size - 1) \div batch_size),
     member_count |-> n, members |-> 1..n, is_deleted |-> FALSE]

GroupIds == {"g1", "g2"}

\* GroupUpdate: version >= 1 (validate_version), name optional
GroupUpdates == [version : 1..3, name : {<<>>, <<"Sales">>}]

AddedContacts == {1, MEMBER_LIMIT - 1, MEMBER_LIMIT, MEMBER_LIMIT + 1}

BulkLists ==
    UNION {[1..n -> (AddedContacts \ {1}) \cup {MissingContact}] : n \in 1..MaxBulk}

\* config.get('batch_size', 100)
BatchSizes == {2, 100}

CallUpdateGroup(group_id, update_data) ==
    /\ call = NoCall
    /\ LET out == update_group(db, group_id = db.id, update_data) IN
       /\ db' = out.group
       /\ call' = [fn |-> "update_group", group_id |-> group_id,
                   update_data |-> update_data, before |-> db,
                   result |-> out.result,
                   response |-> update_group_route(update_data, out.result)]
    /\ UNCHANGED <<now, cache, pc, req, resp, steps, written>>

CallAddMember(contact) ==
    /\ call = NoCall
    /\ LET out == Group_add_member(db, contact) IN
       /\ db' = out.group
       /\ call' = [fn |-> "add_member", contact |-> contact, before |-> db,
                   result |-> out.result]
    /\ UNCHANGED <<now, cache, pc, req, resp, steps, written>>

CallBulkAddContacts(group_id, contact_ids, batch_size) ==
    /\ call = NoCall
    /\ db.version < MaxGroupVersion
    /\ LET out == bulk_add_contacts(db, group_id = db.id, contact_ids, batch_size) IN
       /\ db' = out.group
       /\ call' = [fn |-> "bulk_add_contacts", contact_ids |-> contact_ids,
                   batch_size |-> batch_size, before |-> db,
                   result |-> out.result]
    /\ UNCHANGED <<now, cache, pc, req, resp, steps, written>>

\* A new group, or a group two members short of the limit
InitGroups ==
    /\ now = NowStart
    /\ cache = <<>>
    /\ db \in {GroupWith(0, 100), GroupWith(MEMBER_LIMIT - 2, 100)}
    /\ pc = [p \in Procs |-> "idle"]
    /\ req = [p \in Procs |-> NoReq]
    /\ resp = [p \in Procs |-> NoResp]
    /\ steps = [p \in Procs |-> <<>>]
    /\ call = NoCall
    /\ written = <<>>

NextGroups ==
    \/ \E group_id \in GroupIds, update_data \in GroupUpdates :
         CallUpdateGroup(group_id, update_data)
    \/ \E contact \in AddedContacts : CallAddMember(contact)
    \/ \E group_id \in GroupIds, contact_ids \in BulkLists, batch_size \in BatchSizes :
         CallBulkAddContacts(group_id, contact_ids, batch_size)
    \/ Forget

SpecGroups == InitGroups /\ [][NextGroups]_vars


----------------------------------------------------------------------------
(* contact-service: services/import_manager.py and routes/import.py.  In    *)
(* this specification db is the ImportManager (active_imports, the          *)
(* active-imports gauge, import_cache), pc and req are indexed by import     *)
(* id and give the position and the arguments of each import_contacts       *)
(* coroutine, and steps counts the import_contacts calls made.              *)

MAX_FILE_SIZE == 16777216
MAX_CONCURRENT_IMPORTS == 10
SUPPORTED_FILE_TYPES == {".csv", ".xlsx", ".xls", ".json"}
ALLOWED_EXTENSIONS == {"csv", "xlsx", "json"}

\* Bound: import_contacts calls made in one behaviour
MaxNewImports == 2

\* uuid4() of line 207: import ids in the order they are drawn
ImportIds == 1..(MAX_CONCURRENT_IMPORTS - 1 + MaxNewImports)

\* ImportManager.validate_file, lines 79-101
validate_file(file, file_type) ==
    IF file_type \notin SUPPORTED_FILE_TYPES
    THEN [valid |-> FALSE, error |-> <<"Unsupported file type", file_type>>]
    ELSE IF ~file.exists
    THEN [valid |-> FALSE, error |-> <<"File not found">>]
    ELSE IF file.size > MAX_FILE_SIZE
    THEN [valid |-> FALSE, error |-> <<"File size exceeds maximum limit">>]
    ELSE [valid |-> TRUE, error |-> <<>>]

\* ImportManager.read_file_content, lines 114-128: read_csv gives an iterator
\* of chunks, read_excel takes no chunksize (TypeError), a JSON file gives one
\* DataFrame (iterating it gives its column labels)
read_file_content(file, file_type) ==
    IF file_type = ".csv" THEN Ok("chunks")
    ELSE IF file_type \in {".xlsx", ".xls"} THEN Raise("TypeError", "chunksize")
    ELSE IF file_type = ".json" THEN Ok("DataFrame")
    ELSE Raise("ValueError", "Unsupported file type")

\* ImportManager.process_batch, lines 143-190, for a chunk given as the
\* sequence of its rows (TRUE: the contact is created): every exception of a
\* row is caught and counted
process_batch(batch) ==
    [processed |-> Len(batch),
     success |-> Cardinality({i \in DOMAIN batch : batch[i]}),
     failed |-> Cardinality({i \in DOMAIN batch : ~batch[i]})]

\* Lines 223-230
new_import_entry ==
    [status |-> "in_progress", processed |-> 0, success |-> 0, failed |-> 0]

\* Lines 239-241
add_batch_results(entry, batch_results) ==
    [entry EXCEPT !.processed = @ + batch_results.processed,
                  !.success = @ + batch_results.success,
                  !.failed = @ + batch_results.failed]

\* The finally clause, lines 268-270
release_import(manager, import_id) ==
    [manager EXCEPT !.active_imports = @ \ {import_id}, !.gauge = @ - 1]

\* The except clause, lines 255-266, followed by the finally clause
import_failed(manager, import_id) ==
    release_import(
        IF import_id \in DOMAIN manager.import_cache
        THEN [manager EXCEPT !.import_cache[import_id].status = "failed"]
        ELSE manager,
        import_id)

\* Lines 245-253, followed by the finally clause
import_completed(manager, import_id) ==
    release_import([manager EXCEPT !.import_cache[import_id].status = "completed"],
                   import_id)

\* The id the next import_contacts call draws
next_import_id == Cardinality({id \in ImportIds : pc[id] # "idle"}) + 1

\* import_contacts, lines 207-230, up to the first await that can suspend
StartImport(file, file_type) ==
    LET import_id == next_import_id IN
    /\ steps < MaxNewImports
    /\ import_id \in ImportIds
    /\ req' = [req EXCEPT ![import_id] = [file |-> file, file_type |-> file_type,
                                          batches |-> file.batches]]
    /\ steps' = steps + 1
    /\ IF Cardinality(db.active_imports) >= MAX_CONCURRENT_IMPORTS
       THEN /\ db' = import_failed(db, import_id)
            /\ pc' = [pc EXCEPT ![import_id] = "rejected"]
       ELSE LET active == [db EXCEPT !.active_imports = @ \cup {import_id},
                                     !.gauge = @ + 1]
            IN  IF ~validate_file(file, file_type).valid
                THEN /\ db' = import_failed(active, import_id)
                     /\ pc' = [pc EXCEPT ![import_id] = "failed"]
                ELSE /\ db' = [active EXCEPT !.import_cache =
                                   [id \in DOMAIN @ \cup {import_id} |->
                                       IF id = import_id THEN new_import_entry ELSE @[id]]]
                     /\ pc' = [pc EXCEPT ![import_id] = "reading"]
    /\ UNCHANGED <<now, cache, resp, call, written>>

\* Line 233
ReadFile(import_id) ==
    /\ pc[import_id] = "reading"
    /\ IF read_file_content(req[import_id].file, req[import_id].file_type).exc = "none"
       THEN /\ pc' = [pc EXCEPT ![import_id] = "processing"]
            /\ db' = db
       ELSE /\ pc' = [pc EXCEPT ![import_id] = "failed"]
            /\ db' = import_failed(db, import_id)
    /\ UNCHANGED <<now, cache, req, resp, steps, call, written>>

\* One turn of the loop of lines 235-242, and lines 244-253 after the last
\* chunk.  A DataFrame gives its column labels, and process_batch of a label
\* raises AttributeError at batch.iterrows().
ProcessBatch(import_id) ==
    /\ pc[import_id] = "processing"
    /\ IF req[import_id].file_type = ".json"
       THEN /\ pc' = [pc EXCEPT ![import_id] = "failed"]
            /\ db' = import_failed(db, import_id)
            /\ req' = req
       ELSE LET batches == req[import_id].batches
                after == [db EXCEPT !.import_cache[import_id] =
                              add_batch_results(@, process_batch(Head(batches)))]
            IN  /\ req' = [req EXCEPT ![import_id].batches = Tail(batches)]
                /\ IF Len(batches) = 1
                   THEN /\ pc' = [pc EXCEPT ![import_id] = "completed"]
                        /\ db' = import_completed(after, import_id)
                   ELSE /\ pc' = pc
                        /\ db' = after
    /\ UNCHANGED <<now, cache, resp, steps, call, written>>

\* get_import_manager, lines 48-57: ImportManager() without its two
\* arguments raises TypeError; injected stands for an application that
\* overrides the dependency with its own ImportManager
get_import_manager(injected) ==
    IF injected THEN Ok("import_manager")
    ELSE Raise("HTTPException", "Failed to initialize import service")

\* os.path.splitext(file.filename)[1].lower().lstrip('.'), line 91
file_extension(upload) == upload.extension

\* upload_contacts, lines 82-168.  upload_id is the uuid4() of line 106.
upload_contacts(upload, organization_id, injected, upload_id) ==
    IF get_import_manager(injected).exc # "none"
    THEN Response(500, {get_import_manager(injected).msg}, Nil)
    ELSE IF organization_id = "None"
    THEN Response(400, {"Organization ID is required"}, Nil)
    ELSE IF file_extension(upload) \notin ALLOWED_EXTENSIONS
    THEN Response(400, {"Unsupported file type"}, Nil)
    ELSE IF upload.size > MAX_FILE_SIZE
    THEN Response(400, {"File size exceeds maximum limit"}, Nil)
    ELSE IF ~validate_file([exists |-> TRUE, size |-> upload.size],
                           file_extension(upload)).valid
    THEN Response(400, {"Invalid file structure"}, Nil)
    ELSE Response(200, {}, [import_id |-> upload_id, status |-> "processing"])

\* get_import_status, lines 190-231: progress['organization_id'] raises
\* KeyError when the entry has no such key
get_import_status(manager, import_id, organization_id, injected) ==
    IF get_import_manager(injected).exc # "none"
    THEN Response(500, {get_import_manager(injected).msg}, Nil)
    ELSE IF import_id \notin DOMAIN manager.import_cache
    THEN Response(404, {"Import job not found"}, Nil)
    ELSE LET progress == manager.import_cache[import_id] IN
         IF "organization_id" \notin DOMAIN progress
         THEN Response(500, {"Internal server error while retrieving import status"}, Nil)
         ELSE IF progress.organization_id # organization_id
         THEN Response(403, {"Access denied to import job"}, Nil)
         ELSE Response(200, {}, [import_id |-> import_id, status |-> progress.status])

\* A chunk with one good row and a chunk with one bad row
TwoBatches == << <<TRUE>>, <<FALSE>> >>

\* The files and file types import_contacts is called with
ImportFiles ==
    {[exists |-> TRUE, size |-> MAX_FILE_SIZE, batches |-> TwoBatches],
     [exists |-> TRUE, size |-> MAX_FILE_SIZE + 1, batches |-> TwoBatches],
     [exists |-> FALSE, size |-> 0, batches |-> <<>>]}

ImportFileTypes == {".csv", ".json", ".xlsx", "csv"}

Uploads == [extension : {"csv", "exe"}, size : {MAX_FILE_SIZE, MAX_FILE_SIZE + 1}]

\* organization_id: uuid.UUID = None
ImportOrgs == {"org-1", "None"}

NoImport == [file |-> Nil]

\* A running import of a CSV file, suspended in its last chunk
RunningImport ==
    [file |-> [exists |-> TRUE, size |-> MAX_FILE_SIZE, batches |-> TwoBatches],
     file_type |-> ".csv", batches |-> << <<FALSE>> >>]

CallUploadContacts(upload, organization_id, injected) ==
    /\ call = NoCall
    /\ call' = [fn |-> "upload_contacts", upload |-> upload,
                organization_id |-> organization_id, injected |-> injected,
                response |-> upload_contacts(upload, organization_id, injected,
                                             <<"uuid", steps>>)]
    /\ UNCHANGED <<now, cache, db, pc, req, resp, steps, written>>

CallGetImportStatus(import_id, organization_id, injected) ==
    /\ call = NoCall
    /\ call' = [fn |-> "get_import_status", import_id |-> import_id,
                organization_id |-> organization_id, injected |-> injected,
                begun |-> import_id \in DOMAIN db.import_cache,
                response |-> get_import_status(db, import_id, organization_id, injected)]
    /\ UNCHANGED <<now, cache, db, pc, req, resp, steps, written>>

\* MAX_CONCURRENT_IMPORTS - 1 imports are running
InitImport ==
    /\ now = NowStart
    /\ cache = <<>>
    /\ db = [active_imports |-> 1..(MAX_CONCURRENT_IMPORTS - 1),
             gauge |-> MAX_CONCURRENT_IMPORTS - 1,
             import_cache |-> [id \in 1..(MAX_CONCURRENT_IMPORTS - 1) |->
                                  [new_import_entry EXCEPT !.processed = 1, !.success = 1]]]
    /\ pc = [id \in ImportIds |->
                IF id < MAX_CONCURRENT_IMPORTS THEN "processing" ELSE "idle"]
    /\ req = [id \in ImportIds |->
                IF id < MAX_CONCURRENT_IMPORTS THEN RunningImport ELSE NoImport]
    /\ resp = <<>>
    /\ steps = 0
    /\ call = NoCall
    /\ written = <<>>

NextImport ==
    \/ \E file \in ImportFiles, file_type \in ImportFileTypes : StartImport(file, file_type)
    \/ \E import_id \in ImportIds : ReadFile(import_id)
    \/ \E import_id \in ImportIds : ProcessBatch(import_id)

SpecImport == InitImport /\ [][NextImport]_vars

\* ImportManager.__init__, lines 39-43: no import has been started
InitUpload ==
    /\ now = NowStart
    /\ cache = <<>>
    /\ db = [active_imports |-> {}, gauge |-> 0, import_cache |-> <<>>]
    /\ pc = [id \in ImportIds |-> "idle"]
    /\ req = [id \in ImportIds |-> NoImport]
    /\ resp = <<>>
    /\ steps = 0
    /\ call = NoCall
    /\ written = <<>>

NextUpload ==
    \/ \E file \in ImportFiles, file_type \in ImportFileTypes : StartImport(file, file_type)
    \/ \E import_id \in ImportIds : ReadFile(import_id)
    \/ \E import_id \in ImportIds : ProcessBatch(import_id)
    \/ \E upload \in Uploads, organization_id \in ImportOrgs, injected \in BOOLEAN :
         CallUploadContacts(upload, organization_id, injected)
    \/ \E import_id \in ImportIds, injected \in BOOLEAN :
         CallGetImportStatus(import_id, "org-1", injected)
    \/ Forget

\* The event loop runs every import_contacts coroutine that can go on
SpecUpload ==
    /\ InitUpload
    /\ [][NextUpload]_vars
    /\ \A import_id \in ImportIds :
           WF_vars(ReadFile(import_id)) /\ WF_vars(ProcessBatch(import_id))


----------------------------------------------------------------------------
(* analytics-service routes/reports.py: the cache key of a report request    *)
(* and the requests a cache entry is returned to.  In this specification     *)
(* written gives, for each key, the request whose report was stored last.    *)

\* ReportRequest, lines 49-58: requests that differ in organization,
\* time_period, filters and include_sla_metrics
KeyedRequests ==
    [organization_id : {<<"acme">>, <<"beta">>}, report_type : {<<"delivery">>},
     start_time : {NowStart - Hour}, end_time : {NowStart},
     filters : {"{}", "{'status': 'failed'}"},
     time_period : {"hourly", "daily"},
     include_sla_metrics : BOOLEAN]

\* The report generated for request r: the metrics are aggregated by
\* r.time_period (line 153) and validated against the SLA when
\* r.include_sla_metrics (line 154)
report_for(r) ==
    [statistics |-> [nan |-> FALSE,
                     v |-> (IF r.time_period = "hourly" THEN 9912 ELSE 9800)
                           + (IF r.include_sla_metrics THEN 1 ELSE 0)],
     partition_boundaries |-> <<>>]

\* get_delivery_report, lines 120 and 176: the report of request r is stored
\* under get_cache_key(r)
CallStoreReport(r) ==
    /\ \E redis_fails \in BOOLEAN :
         LET cache_key == get_cache_key(r) IN
         /\ cache' = cache_report(cache, cache_key, report_for(r), now, redis_fails)
         /\ written' = IF redis_fails THEN written
                       ELSE (cache_key :> r) @@ written
         /\ call' = [fn |-> "cache_report", request |-> r, key |-> cache_key]
    /\ UNCHANGED <<now, db, pc, req, resp, steps>>

\* get_delivery_report, lines 119-123: a request is answered from the cache
CallReportLookup(r) ==
    /\ \E redis_fails \in BOOLEAN :
         LET cache_key == get_cache_key(r)
             cached_report == get_cached_report(cache, cache_key, now, redis_fails)
         IN  call' = [fn |-> "get_delivery_report", request |-> r, key |-> cache_key,
                      hit |-> cached_report # Nil,
                      response |-> IF cached_report # Nil
                                   THEN Response(200, {}, cached_report)
                                   ELSE NoResp,
                      computed_for |-> IF cache_key \in DOMAIN written
                                       THEN written[cache_key] ELSE r]
    /\ UNCHANGED <<now, cache, db, pc, req, resp, steps, written>>

NextReportKeys ==
    \/ \E r \in KeyedRequests : CallStoreReport(r)
    \/ \E r \in KeyedRequests : CallReportLookup(r)
    \/ Tick

SpecReportKeys == Init /\ [][NextReportKeys]_vars


----------------------------------------------------------------------------
(* Claims                                                                   *)

HasFailedCacheStep(p) ==
    \E i \in DOMAIN steps[p] :
        steps[p][i] \in {"cache_get_failed", "cache_set_failed"}

ViolatesTimeRange(start_time, end_time, utcnow) ==
    \/ end_time <= start_time
    \/ end_time > utcnow
    \/ end_time - start_time > MaxRangeDays * Day

C2_Original ==
    (call.fn \in {"ReportRequest", "BaseReport"}
     /\ call.start_time < call.end_time /\ call.end_time <= call.at)
    => LET d == call.end_time - call.start_time
           passes == IF call.fn = "ReportRequest"
                     THEN call.result \cap TimeRangeMessages = {}
                     ELSE call.result.exc = "none"
       IN  /\ d = MaxRangeDays * Day => passes
           /\ d = MaxRangeDays * Day + 1 => ~passes

\* C3 as claimed: a report request that missed the cache ends with the report
\* computed, returned, and stored under its key.
C3_Original ==
    \A p \in Procs :
        (req[p].kind = "report" /\ pc[p] = "done"
         /\ \E i \in DOMAIN steps[p] : steps[p][i] = "cache_miss")
        => /\ resp[p].status = 200
           /\ redis_get(cache, get_cache_key(req[p]), now) # Nil

\* C4 as claimed: a cache read or write that fails does not end the request.
\* A contact lookup whose contact is in the database still answers 200; a
\* report or dashboard request still goes on to its computation (whose own
\* outcome is the subject of C3).
C4_Original ==
    \A p \in Procs :
        (pc[p] = "done" /\ HasFailedCacheStep(p))
        => IF req[p].kind = "contact"
           THEN db[req[p].contact_id] # Nil => resp[p].status = 200
           ELSE \E i \in DOMAIN steps[p] :
                   steps[p][i] \in {"compute", "compute_raised"}

\* C5: a cache write replaces the whole entry.  After any sequence of writes,
\* by any callers in any order, the entry under the key last written is
\* exactly the serialised document of that write with its own TTL, whatever
\* was stored before (so writing a document twice leaves what writing it once
\* leaves), and every entry of the cache is the complete serialised value of
\* one write.
C5_CacheWriteReplacesWholeEntry ==
    /\ (call.fn = "cache_report" /\ ~call.redis_fails)
       => cache[call.key] = [val |-> py_str(call.doc), exp |-> call.at + CACHE_TTL]
    /\ call.fn = "dashboard_store"
       => cache[call.key] =
              [val |-> json_dumps(call.doc), exp |-> call.at + DASHBOARD_TTL]
    /\ \A k \in DOMAIN cache :
          \/ k \in DOMAIN written /\ cache[k].val = py_str(written[k])
          \/ k = DashboardKey /\ json_loads(cache[k].val) \in DashboardBodies

\* A report has just been written over a different report stored under the
\* same key.
C5_Witness ==
    /\ call.fn = "cache_report"
    /\ ~call.redis_fails
    /\ call.prev # Nil
    /\ call.prev # py_str(call.doc)

\* C6 as claimed: a report built for a valid range carries the strategy that
\* the range length selects, and as many partition boundaries as its
\* partition_count.
C6_Original ==
    (call.fn = "BaseReport"
     /\ ~ViolatesTimeRange(call.start_time, call.end_time, call.at))
    => /\ call.result.exc = "none"
       /\ call.result.value.strategy =
              partition_strategy(call.start_time, call.end_time)
       /\ Len(call.result.value.partition_boundaries) =
              call.result.value.partition_count

\* C7 as claimed: grouping the metrics of a 24-hour range by the hour gives
\* exactly 24 buckets, whatever the timestamps of the metrics are.
C7_Original ==
    (call.fn = "group_by_time_period" /\ call.time_period = "hourly"
     /\ call.end_time - call.start_time = 24 * Hour
     /\ call.timestamps # <<>>)
    => /\ call.result.exc = "none"
       /\ Len(call.result.value) = 24

\* C8 as claimed: the bucket boundaries are start + k * step for the step of
\* the granularity, strictly increasing, the first one the range start.
C8_Original ==
    (call.fn = "group_by_time_period" /\ call.time_period \in valid_periods
     /\ call.timestamps # <<>>)
    => /\ call.result.exc = "none"
       /\ LET buckets == call.result.value
              step == bin_step(call.time_period)
          IN  /\ buckets[1].start = call.start_time
              /\ \A i \in DOMAIN buckets :
                    buckets[i].start = call.start_time + (i - 1) * step

\* C9 as claimed: every hourly bucket whose boundary lies inside the requested
\* range is produced, with or without metrics in it, so that the buckets run
\* contiguously from the range start to the range end.
C9_Original ==
    (call.fn = "group_by_time_period" /\ call.time_period = "hourly"
     /\ call.timestamps # <<>>)
    => /\ call.result.exc = "none"
       /\ LET buckets == call.result.value IN
          \A t \in call.start_time .. (call.end_time - 1) :
             \E i \in DOMAIN buckets :
                buckets[i].start <= t /\ t < buckets[i].start + Hour

\* C10 as claimed: a report read back from the cache while its entry lives has
\* the statistics of the report that was stored.
C10_Original ==
    (call.fn = "get_cached_report" /\ ~call.redis_fails
     /\ call.key \in DOMAIN written
     /\ redis_get(cache, call.key, call.at) # Nil)
    => /\ call.result # Nil
       /\ call.result.statistics = written[call.key].statistics

IsRateCall == call.fn \in {"models.MessageMetric", "routes.MessageMetric",
                           "average_delivery_rate"}

\* C11 as claimed: every derived delivery rate is 0.0 when the total is 0 and
\* exactly delivered / total * 100 otherwise.
C11_Original ==
    IsRateCall
    => IF call.total_messages = 0
       THEN RatEq(call.result.delivery_rate, Rat(0, 1))
       ELSE RatEq(call.result.delivery_rate,
                  Rat(100 * call.delivered_messages, call.total_messages))

\* C11: every derived delivery rate is 0.0 when the total is 0.  For a
\* positive total the routes metric holds delivered / total * 100 itself,
\* while the models metric and the report average hold it rounded to two
\* decimals (a whole number of hundredths within 0.005 of the quotient).  For
\* a negative total the routes metric and the report average hold 0.0 and the
\* models metric the rounded quotient.
C11_DeliveryRateFromCounts ==
    IsRateCall
    => LET rate == call.result.delivery_rate
           t == call.total_messages
           exact == Rat(100 * call.delivered_messages, t)
           rounded == /\ (100 * rate.num) % rate.den = 0
                      /\ RatLE(Rat(200 * exact.num - exact.den, 200 * exact.den), rate)
                      /\ RatLE(rate, Rat(200 * exact.num + exact.den, 200 * exact.den))
       IN  /\ t = 0 => RatEq(rate, Rat(0, 1))
           /\ (t > 0 /\ call.fn = "routes.MessageMetric") => RatEq(rate, exact)
           /\ (t > 0 /\ call.fn # "routes.MessageMetric") => rounded
           /\ (t < 0 /\ call.fn = "models.MessageMetric") => rounded
           /\ (t < 0 /\ call.fn # "models.MessageMetric") => RatEq(rate, Rat(0, 1))

\* A models metric whose quotient is not a whole number of hundredths (1 of 3)
\* has been built and holds 33.33.
C11_Witness ==
    /\ call.fn = "models.MessageMetric"
    /\ call.total_messages = 3
    /\ call.delivered_messages = 1
    /\ RatEq(call.result.delivery_rate, Rat(3333, 100))

\* C12 as claimed: a models MessageMetric marked valid has non-negative counts
\* and total >= delivered + failed, and is_valid is true exactly when the
\* validation error list is empty.
C12_Original ==
    call.fn = "models.MessageMetric"
    => LET m == call.result IN
       /\ m.is_valid
          => /\ m.total_messages >= 0
             /\ m.delivered_messages >= 0
             /\ m.failed_messages >= 0
             /\ m.total_messages >= m.delivered_messages + m.failed_messages
       /\ m.is_valid <=> m.validation_errors = <<>>

IsStatisticsCall ==
    call.fn \in {"calculate_statistical_summary", "calculate_delivery_statistics",
                 "calculate_engagement_statistics",
                 "calculate_performance_statistics"}

\* C13 as claimed: each statistics operation called with no (valid)
\* observations fails with the insufficient-data error, the ValueError the
\* calculator raises for a missing sample, and returns nothing.
C13_Original ==
    (IsStatisticsCall /\ call.empty)
    => /\ call.result.exc = "ValueError"
       /\ call.result.value = Nil

IsSummaryOfSample ==
    /\ call.fn = "calculate_statistical_summary"
    /\ call.data # <<>>

\* x * k, exactly
FScale(x, k) == [m |-> x.m * k, e |-> x.e]

IsComplianceRatio(ratio, passes) ==
    /\ (\A i \in DOMAIN passes : passes[i]) => ratio = FromInt(1)
    /\ (\A i \in DOMAIN passes : ~passes[i]) => ratio = FromInt(0)
    /\ FLE(FromInt(0), ratio) /\ FLE(ratio, FromInt(1))

\* C15 as claimed: the delivery statistics of a non-empty set of valid metrics
\* report the fraction of delivery rates >= 99.0, and the performance
\* statistics of a non-empty set of metrics the fraction of response times
\* < 2.0: 1.0 when all pass, 0.0 when all fail, always within [0, 1].
C15_Original ==
    /\ (call.fn = "calculate_delivery_statistics" /\ ~call.empty)
       => /\ call.result.exc = "none"
          /\ LET valid == SelectSeq(call.metrics, LAMBDA m : m.is_valid) IN
             IsComplianceRatio(
                 call.result.value.current_statistics.sla_compliance,
                 [i \in DOMAIN valid |->
                     FLE(FromInt(99), to_float(valid[i].delivery_rate))])
    /\ (call.fn = "calculate_performance_statistics" /\ ~call.empty)
       => /\ call.result.exc = "none"
          /\ IsComplianceRatio(
                 call.result.value.response_time_analysis.sla_compliance,
                 [i \in DOMAIN call.data |-> FLT(call.data[i], FromInt(2))])

\* C16 as claimed: in the "sla_compliance" entry of a delivery report,
\* compliant is a boolean that is true exactly when the mean delivery rate is
\* at least 99.0 percent, and the threshold reported is that 99.0, in percent
\* like the rate.
C16_Original ==
    call.fn = "compile_report"
    => LET sla == call.result IN
       /\ sla.compliant.type = "bool"
       /\ sla.compliant.value = FLE(FromInt(99), sla.current_rate.value)
       /\ sla.threshold.value = FromInt(99)

\* C17: the summary of a non-empty sample has a confidence interval exactly
\* when the sample has 30 observations or more, and then
\* lower <= mean <= upper.
C17_ConfidenceIntervalFromThirty ==
    IsSummaryOfSample
    => LET summary == call.result.value
           present == "confidence_interval" \in DOMAIN summary
       IN  /\ call.result.exc = "none"
           /\ present <=> Len(call.data) >= 30
           /\ present
              => /\ FLE(summary.confidence_interval.lower, summary.basic_stats.mean)
                 /\ FLE(summary.basic_stats.mean, summary.confidence_interval.upper)

\* The summary of exactly 30 observations that are not all equal has been
\* computed, with an interval of positive width.
C17_Witness ==
    /\ IsSummaryOfSample
    /\ Len(call.data) = 30
    /\ "confidence_interval" \in DOMAIN call.result.value
    /\ FLT(call.result.value.confidence_interval.lower,
           call.result.value.confidence_interval.upper)
    /\ call.data[1] # call.data[2]

\* Exceptions with different messages that the statements of the two try
\* blocks raise
UnexpectedErrors ==
    {Raise("NameError", "name 'pd' is not defined"),
     Raise("ValueError", "Invalid threshold configuration"),
     Raise("ValueError", "No valid metrics provided for analysis"),
     Raise("ConnectionError", "Error connecting to redis")}

\* C18 as claimed: the internal-error response of a report or dashboard
\* request is the same whichever unexpected error was raised: it is the
\* response the handler gives for any other error message too.
C18_Original ==
    \A p \in Procs :
        (pc[p] = "done" /\ resp[p].status = 500
         /\ req[p].kind \in {"report", "dashboard"})
        => \A e \in UnexpectedErrors :
              resp[p] = IF req[p].kind = "report"
                        THEN delivery_error_response(e)
                        ELSE dashboard_error_response(e)

\* No two contacts of one organization that are not deleted share a phone
\* number
UniquePhoneNumbers ==
    \A r1 \in db : \A r2 \in db :
        (/\ r1 # r2
         /\ ~r1.is_deleted /\ ~r2.is_deleted
         /\ r1.organization_id = r2.organization_id)
        => r1.phone_number # r2.phone_number

\* Worker p has finished a create_contact call whose phone number a contact
\* of the organization already had when the call was made
CreatedExisting(p) ==
    /\ pc[p] = "done"
    /\ req[p].kind = "create"
    /\ req[p].existed

\* C19: whatever create_contact calls have run and however they interleave,
\* no two non-deleted contacts of one organization have the same phone
\* number, and a create_contact for a phone number the organization already
\* has fails with "Contact with this phone number already exists" and adds
\* nothing
C19_Original ==
    /\ UniquePhoneNumbers
    /\ \A p \in Workers :
         CreatedExisting(p) =>
             /\ req[p].outcome.exc = "ValueError"
             /\ req[p].outcome.msg = "Contact with this phone number already exists"
             /\ req[p].applied = 0

\* Worker p has finished an update_contact call on a stored contact without
\* applying it
UpdateRefused(p) ==
    /\ pc[p] = "done"
    /\ req[p].kind = "update"
    /\ req[p].stored # Nil
    /\ req[p].applied = 0

\* The step in which worker p's update_contact call writes the contact
UpdateApplied(p) ==
    /\ pc[p] = "query" /\ req[p].kind = "update"
    /\ pc'[p] = "cache"

\* C20: update_contact applies an update only when the version the caller
\* supplies equals the stored version, and then raises the version by exactly
\* 1; otherwise the call fails with a version conflict (409 from the route)
\* and the stored contact is unchanged; of two concurrent updates of one
\* contact that carry the same version at most one is applied
C20_Original ==
    /\ [][\A p \in Workers :
            IF UpdateApplied(p)
            THEN LET old == stored_contact(db, req[p].contact_id)
                     new == stored_contact(db', req[p].contact_id)
                 IN /\ req[p].data.version = <<old.version>>
                    /\ new.version = old.version + 1
                    /\ db' \ {new} = db \ {old}
            ELSE (/\ pc[p] = "query" /\ req[p].kind = "update"
                  /\ <<pc[p], req[p]>> # <<pc'[p], req'[p]>>) => db' = db]_vars
    /\ [](\A p \in Workers :
            UpdateRefused(p) =>
                /\ req[p].outcome.exc = "ValueError"
                /\ req[p].outcome.msg = "Version conflict detected"
                /\ resp[p].status = 409)
    /\ [](\A p \in Workers : \A q \in Workers :
            (/\ p # q
             /\ req[p].kind = "update" /\ req[q].kind = "update"
             /\ req[p].contact_id = req[q].contact_id
             /\ req[p].data.version = req[q].data.version)
            => req[p].applied + req[q].applied <= 1)

\* Worker p has finished a get_contact call, made after an update_contact of
\* the contact had returned, with a contact
GotContact(p) ==
    /\ pc[p] = "done"
    /\ req[p].kind = "get"
    /\ req[p].completed # {}
    /\ resp[p].status = 200

\* C21: once an update_contact has completed, every later get_contact for the
\* id returns the updated contact (the data that update stored, or data
\* stored since), whatever get_contact calls ran beside the update
C21_Original ==
    \A p \in Workers :
        GotContact(p) =>
            \A updated \in req[p].completed :
                \/ resp[p].body.first_name = updated.first_name
                \/ \E row \in db :
                       /\ row.id = req[p].contact_id
                       /\ row.version > updated.version
                       /\ resp[p].body.first_name = row.first_name

\* The last call was an update_group that changed the group
GroupUpdateApplied ==
    /\ call.fn = "update_group"
    /\ call.result.exc = "none"

\* C22: update_group applies a request only when its version equals the
\* stored version of the group, an applied update raises the stored version
\* by exactly 1, and the version in the response of PUT /groups/{group_id}
\* is the version stored after the update
C22_Original ==
    GroupUpdateApplied =>
        /\ call.update_data.version = call.before.version
        /\ db.version = call.before.version + 1
        /\ call.response.body.version = db.version

\* C23: after any sequence of add_member and bulk_add_contacts calls the
\* group has at most 256 members, member_count is the number of members (no
\* contact is counted twice), and an addition that would take the group past
\* 256 members adds nothing
C23_Original ==
    /\ Cardinality(db.members) <= MEMBER_LIMIT
    /\ db.member_count = Cardinality(db.members)
    /\ (call.fn \in {"add_member", "bulk_add_contacts"}) =>
           Cardinality(db.members) <= (IF Cardinality(call.before.members) > MEMBER_LIMIT
                                       THEN Cardinality(call.before.members)
                                       ELSE MEMBER_LIMIT)

\* The imports whose import_contacts call has begun and not ended
RunningImports == {id \in ImportIds : pc[id] \in {"reading", "processing"}}

\* C24: after any sequence of import_contacts calls, rejected and failed
\* ones included, the active_imports set and the active-imports gauge both
\* give the number of imports that are running, which is never above
\* MAX_CONCURRENT_IMPORTS, and an import that has ended holds no slot
C24_Original ==
    /\ db.active_imports = RunningImports
    /\ db.gauge = Cardinality(RunningImports)
    /\ Cardinality(db.active_imports) <= MAX_CONCURRENT_IMPORTS
    /\ db.gauge <= MAX_CONCURRENT_IMPORTS

\* An upload with an allowed extension, within 16 MB, for an organization
AcceptableUpload ==
    /\ call.fn = "upload_contacts"
    /\ call.organization_id # "None"
    /\ call.upload.extension \in ALLOWED_EXTENSIONS
    /\ call.upload.size <= MAX_FILE_SIZE

\* C26: an upload with an allowed extension and a size within 16 MB is
\* accepted; GET /import/status/{import_id} for an import that has begun
\* returns that import's progress; and an import that has begun eventually
\* has status 'completed' or 'failed'
C26_Original ==
    /\ [](AcceptableUpload => call.response.status = 200)
    /\ []((call.fn = "get_import_status" /\ call.begun) =>
              /\ call.response.status = 200
              /\ call.response.body.import_id = call.import_id)
    /\ \A import_id \in ImportIds :
           (import_id \in DOMAIN db.import_cache) ~>
               (db.import_cache[import_id].status \in {"completed", "failed"})

\* Worker p has answered a GET, PUT or DELETE for an id that has no
\* non-deleted contact
AnsweredMissing(p) ==
    /\ pc[p] = "done"
    /\ req[p].kind \in {"get", "update", "delete"}
    /\ stored_contact(db, req[p].contact_id) = Nil

\* C25: GET, PUT and DELETE /contacts/{contact_id} for an id that has no
\* non-deleted contact answer 404 'Contact not found', not 500
C25_Original ==
    \A p \in Workers :
        AnsweredMissing(p) =>
            /\ resp[p].status = 404
            /\ resp[p].detail = {"Contact not found"}

\* The last call was a report request answered from the cache
ReportFromCache ==
    /\ call.fn = "get_delivery_report"
    /\ call.hit

\* C27: a report returned from the cache was computed for a request with the
\* same time_period, filters and include_sla_metrics as the request that
\* receives it
C27_Original ==
    ReportFromCache =>
        /\ call.computed_for.time_period = call.request.time_period
        /\ call.computed_for.filters = call.request.filters
        /\ call.computed_for.include_sla_metrics = call.request.include_sla_metrics
        /\ call.response.body = report_for(call.request)

====
